---- MODULE Spec2Model ----
(***************************************************************************)
(* The Lazada scraping path of shopee-extractor: the POST handler of       *)
(* /api/scrape-lazada (the Batch Coordinator), LazadaScraper's             *)
(* scrapeShopPageWithAutoPagination (the Pagination Driver) and            *)
(* scrapeShopPage / scrapeProductPage (the Page Harvesters), each as a     *)
(* frame with its own program counter; one action per stretch of code      *)
(* between two awaits.  The browser and the storefront are the             *)
(* environment.  Beside it: getMonthlySoldInfo of src/lib/exportFiles.ts   *)
(* (the Numeric Normalizer) over exact decimals, the extraction script of  *)
(* scrapeShopPage over listing elements, and the POST handler of           *)
(* /api/extract with processMultipleJsons and the exports of both paths.   *)
(***************************************************************************)
EXTENDS Integers, Sequences, FiniteSets, TLC

\* ------------------------------------------------------------------ bounds
\* longest list of URLs in a request
MaxUrls == 3
\* most listing elements the environment shows on one page
MaxCount == 2
\* number of non-empty result pages of a "short" shop
ShortLen == 2
\* largest whole part of the quantities drawn systematically
MaxBase == 11
\* most fraction digits of a quantity
MaxFrac == 2
\* most calls of getMonthlySoldInfo on one argument
MaxCalls == 2
\* most listing elements of a page handed to the extraction script
MaxItems == 3
\* most JSON strings of a request to POST /api/extract
MaxJsons == 3

\* ------------------------------------------------------- program constants
\* const maxPages = 50; // Safety limit
maxPages == 50
\* const maxScrollAttempts = 100;
maxScrollAttempts == 100
\* if (stableCount >= 5)
StableThreshold == 5
\* productSelectors has five candidates
NumSelectors == 5

\* ------------------------------------------------------------ JS numbers
NaN == [nan |-> TRUE, n |-> 0]
Num(n) == [nan |-> FALSE, n |-> n]

Digits == <<"0", "1", "2", "3", "4", "5", "6", "7", "8", "9">>
IsDigit(c) == \E i \in 1..10 : Digits[i] = c
DigitVal(c) == (CHOOSE i \in 1..10 : Digits[i] = c) - 1
IsSpace(c) == c = " "

RECURSIVE SkipSpaces(_)
SkipSpaces(s) ==
  IF s # <<>> /\ IsSpace(Head(s)) THEN SkipSpaces(Tail(s)) ELSE s

\* the value of the longest prefix of digits of s, continuing from acc
RECURSIVE DigitPrefix(_, _)
DigitPrefix(s, acc) ==
  IF s # <<>> /\ IsDigit(Head(s))
    THEN DigitPrefix(Tail(s), 10 * acc + DigitVal(Head(s)))
    ELSE acc

\* parseInt(text): leading blanks, an optional sign, then decimal digits up
\* to the first other character; NaN when there is no digit
parseInt(text) ==
  LET t    == SkipSpaces(text)
      neg  == t # <<>> /\ Head(t) = "-"
      sgn  == t # <<>> /\ Head(t) \in {"-", "+"}
      body == IF sgn THEN Tail(t) ELSE t
  IN  IF body = <<>> \/ ~IsDigit(Head(body))
        THEN NaN
        ELSE Num(IF neg THEN 0 - DigitPrefix(body, 0) ELSE DigitPrefix(body, 0))

\* Number.prototype.toString of an integer
RECURSIVE NatToString(_)
NatToString(n) ==
  IF n < 10 THEN <<Digits[n + 1]>>
  ELSE NatToString(n \div 10) \o <<Digits[(n % 10) + 1]>>

toString(n) == IF n < 0 THEN <<"-">> \o NatToString(0 - n) ELSE NatToString(n)

\* ------------------------------------------------------- JS decimal numbers
\* a finite number m / 10^e, kept without trailing zeros of the fraction, so
\* that equal values are equal records; the rounding of IEEE doubles is left
\* out
NotANumber == [nan |-> TRUE, m |-> 0, e |-> 0]

RECURSIVE Decimal(_, _)
Decimal(m, e) ==
  IF e > 0 /\ m % 10 = 0 THEN Decimal(m \div 10, e - 1)
  ELSE [nan |-> FALSE, m |-> m, e |-> e]

RECURSIVE Pow10(_)
Pow10(k) == IF k = 0 THEN 1 ELSE 10 * Pow10(k - 1)

\* a * b and a + b
Times(a, b) == Decimal(a.m * b.m, a.e + b.e)
Plus(a, b) ==
  LET e == IF a.e > b.e THEN a.e ELSE b.e
  IN  Decimal(a.m * Pow10(e - a.e) + b.m * Pow10(e - b.e), e)

\* a <= b
AtMost(a, b) == Plus(a, Decimal(0 - b.m, b.e)).m <= 0

\* the longest prefix of digits of s
RECURSIVE TakeDigits(_)
TakeDigits(s) ==
  IF s # <<>> /\ IsDigit(Head(s)) THEN <<Head(s)>> \o TakeDigits(Tail(s))
  ELSE <<>>

Drop(s, n) == SubSeq(s, n + 1, Len(s))

\* parseFloat(text): leading blanks, an optional sign, digits with an
\* optional fraction, or a fraction alone, up to the first other character;
\* NaN when there is no digit.  Exponents are not among the inputs drawn.
parseFloat(text) ==
  LET t     == SkipSpaces(text)
      neg   == t # <<>> /\ Head(t) = "-"
      sgn   == t # <<>> /\ Head(t) \in {"-", "+"}
      body  == IF sgn THEN Tail(t) ELSE t
      whole == TakeDigits(body)
      rest  == Drop(body, Len(whole))
      frac  == IF rest # <<>> /\ Head(rest) = "." THEN TakeDigits(Tail(rest))
               ELSE <<>>
      mag   == DigitPrefix(whole \o frac, 0)
  IN  IF whole = <<>> /\ frac = <<>> THEN NotANumber
      ELSE Decimal(IF neg THEN 0 - mag ELSE mag, Len(frac))

\* the digits of n, at least width of them
RECURSIVE Padded(_, _)
Padded(n, width) ==
  IF width <= 1 /\ n < 10 THEN <<Digits[n + 1]>>
  ELSE Padded(n \div 10, width - 1) \o <<Digits[(n % 10) + 1]>>

\* Number.prototype.toString of a finite decimal (no exponent form)
numberToString(d) ==
  LET mag == IF d.m < 0 THEN 0 - d.m ELSE d.m
      int == NatToString(mag \div Pow10(d.e))
      str == IF d.e = 0 THEN int
             ELSE int \o <<".">> \o Padded(mag % Pow10(d.e), d.e)
  IN  IF d.m < 0 THEN <<"-">> \o str ELSE str

\* ----------------------------------------------------------------- strings
\* String.prototype.toLowerCase over the letters the inputs use
toLowerCase(s) ==
  LET Uppers == <<"K", "S", "O", "L", "D", "N", "A">>
      Lowers == <<"k", "s", "o", "l", "d", "n", "a">>
  IN  [i \in 1..Len(s) |->
         IF \E j \in 1..Len(Uppers) : Uppers[j] = s[i]
           THEN Lowers[CHOOSE j \in 1..Len(Uppers) : Uppers[j] = s[i]]
           ELSE s[i]]

\* String.prototype.trim
trim(s) ==
  LET inked == {i \in 1..Len(s) : ~IsSpace(s[i])}
  IN  IF inked = {} THEN <<>>
      ELSE SubSeq(s, CHOOSE i \in inked : \A j \in inked : i <= j,
                     CHOOSE i \in inked : \A j \in inked : j <= i)

\* s.replace(/c/g, '') for every character c of the set chars
Without(s, chars) == SelectSeq(s, LAMBDA c : c \notin chars)

\* the alternatives of /sold\/month|sold\/mo|sold per month|sold monthly|sold/
SoldWords ==
  << <<"s", "o", "l", "d", "/", "m", "o", "n", "t", "h">>,
     <<"s", "o", "l", "d", "/", "m", "o">>,
     <<"s", "o", "l", "d", " ", "p", "e", "r", " ", "m", "o", "n", "t", "h">>,
     <<"s", "o", "l", "d", " ", "m", "o", "n", "t", "h", "l", "y">>,
     <<"s", "o", "l", "d">> >>

\* s.replace(re, '') with re the global regular expression of the
\* alternatives words: at each position the first alternative that matches
RECURSIVE WithoutWords(_, _)
WithoutWords(s, words) ==
  IF s = <<>> THEN <<>>
  ELSE LET hits == {i \in 1..Len(words) :
                      /\ Len(s) >= Len(words[i])
                      /\ SubSeq(s, 1, Len(words[i])) = words[i]} IN
       IF hits = {} THEN <<Head(s)>> \o WithoutWords(Tail(s), words)
       ELSE LET w == words[CHOOSE i \in hits : \A j \in hits : i <= j]
            IN  WithoutWords(Drop(s, Len(w)), words)

\* ------------------------------------------- src/lib/exportFiles.ts, helpers
\* a string argument that may be missing (undefined)
Missing == [given |-> FALSE, text |-> <<>>]
Text(t) == [given |-> TRUE, text |-> t]

Zero == Decimal(0, 0)
Info(numeric, adjusted, display) ==
  [numeric |-> numeric, adjusted |-> adjusted, display |-> display]

\* lower-case and trim; remove "+" and commas; remove the sold words and
\* trim; remove the blanks left
CleanQuantity(text) ==
  Without(trim(WithoutWords(Without(trim(toLowerCase(text)), {"+", ","}),
                            SoldWords)),
          {" "})

\* raw.match(/^(\d+(\.\d+)?)k$/): the first group, or <<>> without a match
kMatch(raw) ==
  LET whole == TakeDigits(raw)
      rest  == Drop(raw, Len(whole))
      frac  == IF rest # <<>> /\ Head(rest) = "." THEN TakeDigits(Tail(rest))
               ELSE <<>>
      after == IF frac # <<>> THEN Drop(rest, 1 + Len(frac)) ELSE rest
  IN  IF whole # <<>> /\ after = <<"k">> THEN SubSeq(raw, 1, Len(raw) - 1)
      ELSE <<>>

\* faulty variant: base > 1 && base < 10
shouldAdd500Open(base) ==
  ~AtMost(base, Decimal(1, 0)) /\ ~AtMost(Decimal(10, 0), base)

\* const shouldAdd500 = base >= 1 && base <= 10
shouldAdd500(base) == AtMost(Decimal(1, 0), base) /\ AtMost(base, Decimal(10, 0))

\* the k branch: numeric = base * 1000, the +500 rule, the display
KInfo(base) ==
  LET numeric == Times(base, Decimal(1000, 0))
  IN  Info(numeric,
           IF shouldAdd500(base) THEN Plus(numeric, Decimal(500, 0)) ELSE numeric,
           numberToString(base) \o <<"k">>)

\* faulty variant: the cleaned string as display
UnparsedCleaned(monthlySold, raw) == Info(Zero, Zero, raw)

\* isNaN: return { numeric: 0, adjusted: 0, display: monthlySold }
Unparsed(monthlySold, raw) == Info(Zero, Zero, monthlySold)

\* faulty variant: the +500 rule applied to a plain number as well
PlainInfoAdjusted(numeric) ==
  Info(numeric,
       IF shouldAdd500(Times(numeric, Decimal(1, 3)))
         THEN Plus(numeric, Decimal(500, 0)) ELSE numeric,
       numberToString(numeric))

\* a plain number: adjusted = numeric, display = numeric.toString()
PlainInfo(numeric) == Info(numeric, numeric, numberToString(numeric))

getMonthlySoldInfo(monthlySold) ==
  IF ~monthlySold.given \/ monthlySold.text = <<>>
    THEN Info(Zero, Zero, <<"0">>)
  ELSE LET raw   == CleanQuantity(monthlySold.text)
           group == kMatch(raw)
       IN  IF group # <<>>
             THEN IF parseFloat(group).nan THEN Unparsed(monthlySold.text, raw)
                  ELSE KInfo(parseFloat(group))
           ELSE IF parseFloat(raw).nan THEN Unparsed(monthlySold.text, raw)
           ELSE PlainInfo(parseFloat(raw))

\* -------------------------------- src/app/api/scrape-lazada/route.ts, helper
\* s.replace('k', ''): the first k only
WithoutFirst(s, c) ==
  IF \E i \in 1..Len(s) : s[i] = c
    THEN LET i == CHOOSE i \in 1..Len(s) : s[i] = c /\ \A j \in 1..(i - 1) : s[j] # c
         IN  SubSeq(s, 1, i - 1) \o Drop(s, i)
    ELSE s

parseSoldCount(soldCountStr) ==
  IF ~soldCountStr.given \/ soldCountStr.text \in {<<>>, <<"0">>} THEN Zero
  ELSE LET cleaned ==
             trim(WithoutWords(toLowerCase(soldCountStr.text),
                               << <<"s", "o", "l", "d">> >>))
       IN  IF \E i \in 1..Len(cleaned) : cleaned[i] = "k"
             THEN LET num == parseFloat(trim(WithoutFirst(cleaned, "k")))
                  IN  IF num.nan THEN Zero ELSE Times(num, Decimal(1000, 0))
             ELSE LET num == parseFloat(Without(cleaned, {","}))
                  IN  IF num.nan THEN Zero ELSE num

\* ------------------------------------- the extraction script of scrapeShopPage
\* A listing element: text[sel] is the text content of the first element
\* under it that the selector sel matches, attr[sel] its attribute, Missing
\* when there is none; spans are the texts of its span elements in order.
\* The candidate selectors of the fields modelled.
Selectors ==
  [name |-> <<".RfADt", "[class*=title]", "[class*=name]", "a[title]">>,
   price |-> <<".ooOxS", "._43F-s", "[class*=price]", ".price">>,
   discount |-> <<".WNoq3", "[class*=discount]", "[class*=off]">>,
   sold |-> <<"._1cEkb", "._1cEkb span", ".m2RZo", "[class*=sold]">>]

\* faulty variant: the last candidate with text wins
RECURSIVE getTextLast(_, _)
getTextLast(item, selectors) ==
  IF selectors = <<>> THEN <<>>
  ELSE LET el == item.text[selectors[Len(selectors)]] IN
       IF el.given /\ trim(el.text) # <<>> THEN trim(el.text)
       ELSE getTextLast(item, SubSeq(selectors, 1, Len(selectors) - 1))

\* getText(selectors): the trimmed text of the first candidate that has some
RECURSIVE getText(_, _)
getText(item, selectors) ==
  IF selectors = <<>> THEN <<>>
  ELSE LET el == item.text[Head(selectors)] IN
       IF el.given /\ trim(el.text) # <<>> THEN trim(el.text)
       ELSE getText(item, Tail(selectors))

\* getAttr(selectors, attr): the first attribute value that is not empty
RECURSIVE getAttr(_, _)
getAttr(item, selectors) ==
  IF selectors = <<>> THEN <<>>
  ELSE LET value == item.attr[Head(selectors)] IN
       IF value.given /\ value.text # <<>> THEN value.text
       ELSE getAttr(item, Tail(selectors))

\* s.replace(/\s*sold\s*/gi, ''): sold in either case with the blanks around
RECURSIVE WithoutSold(_)
WithoutSold(s) ==
  IF s = <<>> THEN <<>>
  ELSE LET t == SkipSpaces(s) IN
       IF Len(t) >= 4 /\ toLowerCase(SubSeq(t, 1, 4)) = <<"s", "o", "l", "d">>
         THEN WithoutSold(SkipSpaces(Drop(t, 4)))
         ELSE <<Head(s)>> \o WithoutSold(Tail(s))

\* the callback of items.map for the element item at the 0-based index
ListingRecord(item, index) ==
  LET \* text.match(/^[\d.,]+[kK]?\s+sold$/i): h ends [\d.,]+[kK]?, b blanks
      SoldPattern(text) ==
        \E h \in 1..Len(text), b \in 1..Len(text) :
          /\ \E n \in {h - 1, h} :
               /\ n >= 1
               /\ \A j \in 1..n : IsDigit(text[j]) \/ text[j] \in {".", ","}
               /\ n = h - 1 => text[h] \in {"k", "K"}
          /\ h + b <= Len(text)
          /\ \A j \in (h + 1)..(h + b) : IsSpace(text[j])
          /\ toLowerCase(Drop(text, h + b)) = <<"s", "o", "l", "d">>
      name      == getText(item, Selectors.name)
      priceText == getText(item, Selectors.price)
      \* "P" stands for the peso sign
      price     == parseFloat(Without(priceText, {"P", ",", " "}))
      discount  == getText(item, Selectors.discount)
      bySel     == getText(item, Selectors.sold)
      hits      == {i \in 1..Len(item.spans) : SoldPattern(trim(item.spans[i]))}
      sold      == IF bySel # <<>> \/ hits = {} THEN bySel
                   ELSE trim(item.spans[CHOOSE i \in hits : \A j \in hits : i <= j])
      cleaned   == trim(WithoutSold(sold))
      productUrl == getAttr(item, <<"a">>)
  IN  [name |-> IF name # <<>> THEN name
                ELSE <<"U", "n", "k", "n", "o", "w", "n", " ", "P", "r", "o", "d",
                       "u", "c", "t", " ">> \o NatToString(index + 1),
       price |-> IF price.nan THEN Zero ELSE price,
       discount |-> IF discount # <<>> THEN Text(discount) ELSE Missing,
       soldCount |-> IF cleaned = <<>> THEN <<"0">> ELSE cleaned,
       \* productUrl.startsWith('http') ? productUrl : `https:${productUrl}`
       productUrl |-> IF Len(productUrl) >= 4
                           /\ SubSeq(productUrl, 1, 4) = <<"h", "t", "t", "p">>
                        THEN productUrl
                        ELSE <<"h", "t", "t", "p", "s", ":">> \o productUrl]

\* faulty variant: the elements without a name are left out
ExtractionDropsNameless(items) ==
  LET kept == SelectSeq([i \in 1..Len(items) |-> i],
                        LAMBDA i : getText(items[i], Selectors.name) # <<>>)
  IN  [k \in 1..Len(kept) |-> ListingRecord(items[kept[k]], kept[k] - 1)]

\* Array.from(document.querySelectorAll(selector)).map(...)
Extraction(items) ==
  [i \in 1..Len(items) |-> ListingRecord(items[i], i - 1)]

\* ------------------------------- extractProductsFromJson, processMultipleJsons
\* An item card of a payload: isNull for a null in item_cards; name, price
\* (in 1/100000 of the currency) and the monthly sold text may be missing.
Card(name, price, monthly, soldOut) ==
  [isNull |-> FALSE, name |-> name, price |-> price, monthly |-> monthly,
   soldOut |-> soldOut]

\* the Product of one item card; "P" stands for the peso sign, and the
\* grouping and the two fraction digits of toLocaleString are left out
ProductOf(item) ==
  LET \* text || fallback
      OrElse(value, fallback) ==
        IF value.given /\ value.text # <<>> THEN value.text ELSE fallback
      price == IF item.price.nan THEN NotANumber
               ELSE Times(item.price, Decimal(1, 5))
  IN  [name |-> OrElse(item.name, <<"U", "n", "k", "n", "o", "w", "n", " ",
                                    "P", "r", "o", "d", "u", "c", "t">>),
       price |-> IF price.nan THEN <<"P", "N", "a", "N">>
                 ELSE <<"P">> \o numberToString(price),
       price_numeric |-> price,
       monthly_sold |-> Text(OrElse(item.monthly, <<"N", "/", "A">>)),
       sold_out |-> IF item.soldOut THEN "Yes" ELSE "No",
       monthly_sold_numeric |-> NotANumber,
       adjusted_monthly_sold |-> NotANumber,
       monthly_sold_sales |-> NotANumber]

\* A pasted string [parses, isNull, where, iterable, cards]: one that
\* JSON.parse rejects, or the value it parses to:
\* null, or a value with item_cards under data ("data"), at the top level
\* ("top") or nowhere ("none": an empty object, a number, a string); item_cards is an array or, with iterable
\* FALSE, some other truthy value.
\* extractProductsFromJson(jsonData): the products, or the TypeError of
\* reading a property of null or of iterating what is no array
extractProductsFromJson(jsonData) ==
  LET Returned(products) == [threw |-> FALSE, products |-> products, message |-> ""]
      Raised(message) == [threw |-> TRUE, products |-> <<>>, message |-> message]
  IN
  IF jsonData.isNull THEN Raised("Cannot read properties of null")
  ELSE IF jsonData.where = "none" THEN Returned(<<>>)
  ELSE IF ~jsonData.iterable THEN Raised("itemCards is not iterable")
  ELSE IF \E i \in 1..Len(jsonData.cards) : jsonData.cards[i].isNull
    THEN Raised("Cannot read properties of null")
  ELSE Returned([i \in 1..Len(jsonData.cards) |-> ProductOf(jsonData.cards[i])])

\* faulty variant: the label is the 0-based index
ItemErrorZeroBased(index, message) == [label |-> index, message |-> message]

\* `JSON ${index + 1}: ${error.message}`
ItemError(index, message) == [label |-> index + 1, message |-> message]

\* the forEach of processMultipleJsons over the first k strings
RECURSIVE ForEachJson(_, _)
ForEachJson(jsonStrings, k) ==
  IF k = 0 THEN [products |-> <<>>, errors |-> <<>>]
  ELSE LET acc == ForEachJson(jsonStrings, k - 1)
           got == IF jsonStrings[k].parses
                    THEN extractProductsFromJson(jsonStrings[k])
                    ELSE [threw |-> TRUE, products |-> <<>>,
                          message |-> "Unexpected token"]
       IN  IF got.threw
             THEN [products |-> acc.products,
                   errors |-> Append(acc.errors, ItemError(k - 1, got.message))]
             ELSE [products |-> acc.products \o got.products,
                   errors |-> acc.errors]

\* faulty variant: only the strings that parse are counted
totalFilesParsed(jsonStrings) ==
  Len(SelectSeq(jsonStrings, LAMBDA j : j.parses))

\* totalFiles: jsonStrings.length
totalFiles(jsonStrings) == Len(jsonStrings)

processMultipleJsons(jsonStrings) ==
  LET all     == ForEachJson(jsonStrings, Len(jsonStrings))
      soldOut == Len(SelectSeq(all.products, LAMBDA p : p.sold_out = "Yes"))
  IN  [products |-> all.products,
       stats |-> [totalFiles |-> totalFiles(jsonStrings),
                  totalProducts |-> Len(all.products),
                  soldOut |-> soldOut,
                  available |-> Len(all.products) - soldOut,
                  errors |-> all.errors]]

\* ----------------------------------------------------------------- exports
\* A row of a sheet or of a CSV file: of the columns, the product name, the
\* price, the sold text and the sales estimate.  A file: its format and its
\* sheets (one for CSV and JSON), each a sequence of rows.
Row(name, price, sold, sales) ==
  [name |-> name, price |-> price, sold |-> sold, sales |-> sales]
TotalRow(sales) ==
  [name |-> <<"T", "O", "T", "A", "L">>, price |-> <<>>, sold |-> <<>>,
   sales |-> sales]

\* rows.reduce((sum, row) => sum + row.sales, 0)
RECURSIVE SumSales(_)
SumSales(rows) ==
  IF rows = <<>> THEN Zero
  ELSE Plus(SumSales(SubSeq(rows, 1, Len(rows) - 1)), rows[Len(rows)].sales)

\* src/lib/exportFiles.ts
getPriceNumeric(p) ==
  IF ~p.price_numeric.nan THEN p.price_numeric
  ELSE LET parsed == parseFloat(Without(p.price, {","}))
       IN  IF parsed.nan THEN Zero ELSE parsed

\* const monthlySoldSales = price * adjustedMonthlySold
monthlySoldSales(p) ==
  Times(getPriceNumeric(p), getMonthlySoldInfo(p.monthly_sold).adjusted)

\* the computed fields generateExcel and generateCSV store on the products,
\* and generateJSON on copies of them
Enriched(products) ==
  [i \in 1..Len(products) |->
     [products[i] EXCEPT
        !.monthly_sold_numeric = getMonthlySoldInfo(products[i].monthly_sold).numeric,
        !.adjusted_monthly_sold = getMonthlySoldInfo(products[i].monthly_sold).adjusted,
        !.monthly_sold_sales = monthlySoldSales(products[i])]]

\* generateExcel: the sheet Products, and the sheet Product Total Sales with
\* its TOTAL row
generateExcel(products) ==
  LET rows == [i \in 1..Len(products) |->
                 Row(products[i].name, getPriceNumeric(products[i]),
                     products[i].monthly_sold, monthlySoldSales(products[i]))]
      totalSalesRows ==
              [i \in 1..Len(products) |->
                 Row(products[i].name, getPriceNumeric(products[i]),
                     Text(getMonthlySoldInfo(products[i].monthly_sold).display),
                     monthlySoldSales(products[i]))]
  IN  [format |-> "excel",
       sheets |-> <<rows, Append(totalSalesRows,
                                 TotalRow(SumSales(totalSalesRows)))>>]

\* generateCSV: Papa.unparse(data)
generateCSV(products) ==
  [format |-> "csv",
   sheets |-> << [i \in 1..Len(products) |->
                    Row(products[i].name, getPriceNumeric(products[i]),
                        products[i].monthly_sold,
                        monthlySoldSales(products[i]))] >>]

\* generateJSON: JSON.stringify(enriched)
generateJSON(products) ==
  [format |-> "json",
   sheets |-> << [i \in 1..Len(products) |->
                    Row(products[i].name, products[i].price_numeric,
                        products[i].monthly_sold,
                        Enriched(products)[i].monthly_sold_sales)] >>]

\* src/app/api/scrape-lazada/route.ts: the rows of generateExcel and of
\* generateCSV, with the TOTAL row pushed after them
routeRows(products) ==
  LET rows == [i \in 1..Len(products) |->
                 Row(products[i].name, products[i].price,
                     Text(products[i].soldCount),
                     Times(products[i].price,
                           parseSoldCount(Text(products[i].soldCount))))]
  IN  Append(rows, TotalRow(SumSales(rows)))

\* JSON.stringify(allProducts): the records as they are, without an estimate
stringify(products) ==
  [format |-> "json",
   sheets |-> << [i \in 1..Len(products) |->
                    [name |-> products[i].name, price |-> products[i].price,
                     sold |-> Text(products[i].soldCount)]] >>]

\* ------------------------------------------------------------------ URLs
\* the page query parameter of a URL: absent, or present with a text
Absent == [present |-> FALSE, text |-> <<>>]
PageParam(text) == [present |-> TRUE, text |-> text]

\* a shop as the storefront serves it: endlessly many non-empty pages, or
\* non-empty pages 1..last and nothing after them
EndlessShop == [endless |-> TRUE, last |-> 0]
FiniteShop(n) == [endless |-> FALSE, last |-> n]
Shops == {EndlessShop, FiniteShop(0), FiniteShop(ShortLen)}

\* a string that new URL() rejects
Malformed ==
  [wf |-> FALSE, page |-> Absent, shop |-> FiniteShop(0), query |-> <<>>]
\* a URL of a shop: its query is the list of its parameters in order, with
\* the page parameter (if any) behind, in front of or between the others,
\* and once with a second page parameter at the end
Url(page, shop) ==
  LET from  == [name |-> "from", value |-> <<"w">>]
      q     == [name |-> "q", value |-> <<"A">>]
      pg(t) == [name |-> "page", value |-> t]
  IN  [wf |-> TRUE, page |-> page, shop |-> shop,
       query |-> IF ~page.present THEN <<from, q>>
                 ELSE IF page.text = <<"3">>
                   THEN <<from, pg(page.text), q, pg(<<"9">>)>>
                 ELSE IF page.text = <<"2">> THEN <<from, q, pg(page.text)>>
                 ELSE <<pg(page.text), from, q>>]

\* urlObj.searchParams.get(name): the value of the first parameter of that
\* name, or null
SearchParamsGet(query, name) ==
  IF \E i \in 1..Len(query) : query[i].name = name
    THEN PageParam(query[CHOOSE i \in 1..Len(query) :
                           /\ query[i].name = name
                           /\ \A j \in 1..(i - 1) : query[j].name # name].value)
    ELSE Absent

\* faulty variant: the query is replaced by the one parameter
SearchParamsSetAlone(query, name, value) == <<[name |-> name, value |-> value]>>

\* urlObj.searchParams.set(name, value): the first parameter of that name
\* gets the value and the further ones are removed; without one, the
\* parameter is appended
SearchParamsSet(query, name, value) ==
  IF SearchParamsGet(query, name) = Absent
    THEN Append(query, [name |-> name, value |-> value])
    ELSE LET first == CHOOSE i \in 1..Len(query) :
                        /\ query[i].name = name
                        /\ \A j \in 1..(i - 1) : query[j].name # name
             kept  == SelectSeq([i \in 1..Len(query) |-> i],
                                LAMBDA i : query[i].name # name \/ i = first)
         IN  [k \in 1..Len(kept) |->
                IF kept[k] = first THEN [name |-> name, value |-> value]
                ELSE query[kept[k]]]

\* seed URLs of one-URL requests: every shape of page parameter
SeedParams ==
  {Absent, PageParam(<<>>), PageParam(<<"1">>), PageParam(<<"3">>),
   PageParam(<<"0">>), PageParam(<<"-", "1">>), PageParam(<<"a", "b", "c">>),
   PageParam(<<"5", "1">>)}
SeedUrls == {Malformed} \cup {Url(p, s) : p \in SeedParams, s \in Shops}

\* URLs of longer requests
BatchUrls ==
  {Malformed, Url(Absent, FiniteShop(0)), Url(Absent, FiniteShop(ShortLen)),
   Url(PageParam(<<"2">>), FiniteShop(ShortLen))}

RECURSIVE SeqsOf(_, _)
SeqsOf(S, n) ==
  IF n = 0 THEN {<<>>}
  ELSE {Append(q, x) : q \in SeqsOf(S, n - 1), x \in S}

UrlLists ==
  {<<>>} \cup {<<u>> : u \in SeedUrls}
         \cup UNION {SeqsOf(BatchUrls, n) : n \in 2..MaxUrls}

\* the page number the storefront reads from a page parameter
ServedPage(param) ==
  LET r == IF param.present THEN parseInt(param.text) ELSE NaN
  IN  IF r.nan THEN 1 ELSE r.n

\* whether the shop has listings on the page a request asks for
HasListings(shop, p) ==
  shop.endless \/ (IF p < 1 THEN 1 ELSE p) <= shop.last

\* how many listings an unchanging storefront shows on page p: 1..MaxCount
ListingCount(p) == 1 + (p % MaxCount)

\* the listing records of one page, in document order
RECURSIVE Listings(_, _, _)
Listings(u, p, n) ==
  IF n = 0 THEN <<>>
  ELSE Append(Listings(u, p, n - 1), [url |-> u, page |-> p, idx |-> n])

NoRequest == [url |-> 0, page |-> Absent, query |-> <<>>]

\* ------------------------------------------------- inputs of the normalizer
\* what follows the number of a quantity
Tails ==
  {<<>>, <<"+">>, <<" ", "s", "o", "l", "d">>, <<" ", "S", "o", "l", "d">>,
   <<" ", "s", "o", "l", "d", "/", "m", "o", "n", "t", "h">>,
   <<"+", " ", "s", "o", "l", "d", "/", "m", "o">>,
   <<" ", "s", "o", "l", "d", " ", "p", "e", "r", " ", "m", "o", "n", "t", "h">>,
   <<" ", "s", "o", "l", "d", " ", "m", "o", "n", "t", "h", "l", "y">>}
\* the arguments getMonthlySoldInfo is called with: nothing, odd texts, and
\* lead, whole part (0..MaxBase and a few more), fraction (none, or a point
\* and 1..MaxFrac digits), suffix, tail
QuantityInputs ==
  LET OddTexts ==
        {<<>>, <<" ">>, <<"N", "/", "A">>, <<"k">>, <<".", "5", "k">>,
         <<"3", "k", "k">>, <<"-", "3", "k">>, <<"1", ",", "5", "k">>,
         <<"1", ",", "5", "0", "0">>, <<"3", " ", "k">>, <<"s", "o", "l", "d">>,
         <<"3", ".", "k">>, <<"a", "b", "c">>, <<"-", "5">>}
      WholeParts ==
        {NatToString(n) : n \in 0..MaxBase}
          \cup {<<"1", "5">>, <<"5", "6", "8">>, <<"0", "3">>}
      Fractions ==
        {<<>>} \cup {<<".">> \o f :
                       f \in UNION {SeqsOf({"0", "3", "5"}, n) : n \in 1..MaxFrac}}
  IN  {Missing} \cup {Text(t) : t \in OddTexts}
        \cup {Text(l \o w \o f \o k \o t) :
                l \in {<<>>, <<" ">>}, w \in WholeParts, f \in Fractions,
                k \in {<<>>, <<"k">>, <<"K">>}, t \in Tails}

NoInfo == Info(NotANumber, NotANumber, <<>>)

\* ----------------------------------------------------- inputs of the exports
\* pasted strings: one JSON.parse rejects, null, an object without item
\* cards, payloads of either structure, one with a null among its cards
\* and one whose item_cards is no array
JsonPool ==
  LET a == Card(Text(<<"A">>), Decimal(10000000, 0), Text(<<"3", "k">>), FALSE)
      b == Card(Text(<<"B">>), Decimal(4950000, 0),
                Text(<<"5", "6", "8", " ", "s", "o", "l", "d">>), TRUE)
      c == Card(Missing, Zero, Missing, FALSE)
      d == Card(Text(<<"D">>), NotANumber, Text(<<"1", "5", "k">>), FALSE)
      null == [Card(Missing, Zero, Missing, FALSE) EXCEPT !.isNull = TRUE]
      Json(where, cards) ==
        [parses |-> TRUE, isNull |-> FALSE, where |-> where, iterable |-> TRUE,
         cards |-> cards]
  IN  {[Json("none", <<>>) EXCEPT !.parses = FALSE],
       [Json("none", <<>>) EXCEPT !.isNull = TRUE],
       Json("none", <<>>), Json("data", <<a>>), Json("top", <<b, c>>),
       Json("data", <<d>>), Json("data", <<a, null>>),
       [Json("top", <<>>) EXCEPT !.iterable = FALSE]}

\* a listing element: per name candidate no element ("none"), an element
\* with blank text ("blank") or with a text of its own ("text"); kind 1 has
\* price, discount, link and sold count under their first candidates, kind 2
\* a price under a later candidate and the sold count in a span only, kind 3
\* nothing else
\* the listing elements of a page: none, any one element, or 2..MaxItems of
\* a few
DomLists ==
  LET DomItem(names, kind) ==
        [text |->
           [sel \in {Selectors.name[j] : j \in 1..4}
                    \cup {Selectors.price[j] : j \in 1..4}
                    \cup {Selectors.discount[j] : j \in 1..3}
                    \cup {Selectors.sold[j] : j \in 1..4} |->
              IF \E j \in 1..4 : Selectors.name[j] = sel
                THEN LET j == CHOOSE j \in 1..4 : Selectors.name[j] = sel IN
                     CASE names[j] = "none" -> Missing
                       [] names[j] = "blank" -> Text(<<" ">>)
                       [] OTHER -> Text(<<" ", "N", Digits[j + 1], " ">>)
              ELSE IF kind = 1 /\ sel = Selectors.price[1]
                THEN Text(<<"P", "1", ",", "2", "5", "0", ".", "5", "0">>)
              ELSE IF kind = 1 /\ sel = Selectors.discount[1]
                THEN Text(<<"5", "%">>)
              ELSE IF kind = 1 /\ sel = Selectors.sold[1]
                THEN Text(<<"1", ".", "3", "K", " ", "s", "o", "l", "d">>)
              ELSE IF kind = 2 /\ sel = Selectors.price[3]
                THEN Text(<<"P", " ", "2", "0">>)
              ELSE Missing],
         attr |-> [sel \in {"a"} |->
                     CASE kind = 1 -> Text(<<"/", "/", "x">>)
                       [] kind = 2 -> Text(<<"h", "t", "t", "p", ":", "/", "/", "y">>)
                       [] OTHER -> Missing],
         spans |-> IF kind = 2
                     THEN << <<"n", "e", "w">>,
                             <<" ", "3", "K", " ", "s", "o", "l", "d">> >>
                     ELSE <<>>]
      few == {DomItem(<<"none", "none", "none", "none">>, 3),
              DomItem(<<"text", "none", "text", "none">>, 1),
              DomItem(<<"none", "blank", "text", "text">>, 2)}
  IN  {<<>>}
        \cup {<<DomItem(names, kind)>> :
                names \in [1..4 -> {"none", "blank", "text"}], kind \in 1..3}
        \cup UNION {SeqsOf(few, n) : n \in 2..MaxItems}

VARIABLES
  \* the request and the environment
  bodyKind, urls, autoPaginate, dynamic,
  \* POST
  routePc, urlIdx, allProducts, routeError, response,
  \* what POST wrote with console.error, one entry per failed URL
  perUrlErrors,
  \* LazadaScraper.browser
  browser,
  \* scrapeShopPageWithAutoPagination
  driverPc, currentPage, driverProducts, driverError,
  \* scrapeShopPage / scrapeProductPage
  pagePc, pageReq, pagesOpen, fate, selIdx, workingSelector, previousCount,
  stableCount, scrollAttempts, pageResult, pageError,
  \* a direct caller of the exported scraper
  clientPc,
  \* history: calls of puppeteer.launch and of browser.close
  launches, closes,
  \* history: calls of close() on the scraper
  closeCalls,
  \* history: the URLs POST has called a harvest for
  attempted,
  \* history: per URL POST is done with, what its harvest came to
  harvestRuns,
  \* history of the URL in hand: page harvests called, page harvests ended
  requested, harvested,
  \* history: the loop exit the driver took, iterations of the scroll loop
  terminatedReason, iters,
  \* history of the page harvest in hand: the counts the candidate selectors
  \* gave, the selectors handed to the re-counts and to the extraction, the
  \* count the scroll iteration before observed (-1: none yet), and how many
  \* of the latest observations in a row equalled the one before them
  probed, usedSelectors, observedLast, unchangedRun,
  \* a caller of getMonthlySoldInfo: its argument, the number of calls made,
  \* the results of the first and of the last call, and the result for the
  \* rendering of the numeric value
  qRaw, qCalls, qFirst, qInfo, qAgain,
  \* POST /api/extract, and a caller of the extraction script and of the
  \* exports of route.ts: the position, the body of the request (its kind,
  \* its jsonStrings, its format), the result of processMultipleJsons, the
  \* response, the listing elements of a page, the records the script made
  \* of them, the file generated
  exportPc, xBody, xJsonStrings, xFormat, xResult, xResponse, domItems,
  scraped, file

quantityVars == <<qRaw, qCalls, qFirst, qInfo, qAgain>>
\* the code outside the scraping path
exportVars ==
  <<exportPc, xBody, xJsonStrings, xFormat, xResult, xResponse, domItems,
    scraped, file>>
\* what the scraping path leaves alone: the request, the environment and the
\* code outside it
envVars == <<bodyKind, urls, autoPaginate, dynamic, quantityVars, exportVars>>
routeVars ==
  <<routePc, urlIdx, allProducts, perUrlErrors, routeError, response, attempted,
    harvestRuns>>
browserVars == <<browser, launches, closes, closeCalls>>
driverVars ==
  <<driverPc, currentPage, driverProducts, driverError, terminatedReason>>
scrollVars ==
  <<previousCount, stableCount, scrollAttempts, iters, probed, usedSelectors,
    observedLast, unchangedRun>>
pageVars ==
  <<pagePc, pageReq, pagesOpen, fate, selIdx, workingSelector, scrollVars,
    pageResult, pageError>>
vars ==
  <<envVars, routeVars, browserVars, driverVars, requested, harvested, pageVars,
    clientPc>>

NoResponse == [status |-> 0, total |-> 0, error |-> "", details |-> ""]

\* an Error: the text a catch block put in front, and the original message
NoError == [prefix |-> "", message |-> ""]
Error(msg) == [prefix |-> "", message |-> msg]

InitFrames ==
  /\ urlIdx = 0 /\ allProducts = <<>> /\ perUrlErrors = <<>>
  /\ routeError = NoError /\ response = NoResponse /\ attempted = <<>>
  /\ harvestRuns = <<>>
  /\ closes = 0 /\ closeCalls = 0
  /\ driverPc = "idle" /\ currentPage = Num(1) /\ driverProducts = <<>>
  /\ driverError = NoError /\ terminatedReason = ""
  /\ requested = <<>> /\ harvested = <<>>
  /\ pagePc = "idle" /\ pageReq = NoRequest /\ pagesOpen = 0 /\ fate = ""
  /\ selIdx = 0 /\ workingSelector = 0 /\ previousCount = 0
  /\ stableCount = 0 /\ scrollAttempts = 0 /\ iters = 0
  /\ probed = <<>> /\ usedSelectors = {} /\ observedLast = -1
  /\ unchangedRun = 0
  /\ pageResult = <<>> /\ pageError = NoError

\* no caller of getMonthlySoldInfo
QuantityOff ==
  qRaw = Missing /\ qCalls = 0 /\ qFirst = NoInfo /\ qInfo = NoInfo
    /\ qAgain = NoInfo

NoFile == [format |-> "none", sheets |-> <<>>]

\* no caller of the exports; no result is the result of no strings
ExportOff ==
  /\ exportPc = "off" /\ xBody = "array" /\ xJsonStrings = <<>>
  /\ xResult = processMultipleJsons(<<>>)
  /\ xFormat = "json" /\ xResponse = [NoResponse EXCEPT !.details = <<>>]
  /\ domItems = <<>> /\ scraped = <<>> /\ file = NoFile

\* a request to POST /api/scrape-lazada, against a storefront whose pages
\* do not change while they are harvested
Init ==
  /\ bodyKind \in {"invalidJson", "missing", "notArray", "array"}
  /\ urls \in IF bodyKind = "array" THEN UrlLists ELSE {<<>>}
  /\ autoPaginate \in IF bodyKind = "array" /\ urls # <<>> THEN BOOLEAN ELSE {TRUE}
  /\ dynamic = FALSE
  /\ routePc = "start"
  /\ clientPc = "off"
  /\ browser = "null" /\ launches = 0
  /\ InitFrames
  /\ QuantityOff /\ ExportOff

\* one call of scrapeShopPage or scrapeProductPage on the exported scraper,
\* with or without a browser launched before, against a page whose content
\* changes arbitrarily between any two observations
InitPage ==
  /\ bodyKind = "array"
  /\ urls = <<>>
  /\ autoPaginate = FALSE
  /\ dynamic = TRUE
  /\ routePc = "off"
  /\ clientPc = "ready"
  /\ browser \in {"null", "open"}
  /\ launches = IF browser = "open" THEN 1 ELSE 0
  /\ InitFrames
  /\ QuantityOff /\ ExportOff

\* --------------------------------------------------------- the environment
\* What the browser shows of a page.  In a request against an unchanging
\* storefront the page has one fate, fixed when it is opened: "ok" (its
\* listings under the first candidate selector), "nav" (navigation fails),
\* "nolist" (no candidate selector matches), "eval" (the extraction script
\* fails) or "vanish" (the listings are gone after the first count).  Under
\* "free" every observation is arbitrary.
Fates(req) ==
  IF dynamic THEN {"free"}
  ELSE IF ~urls[req.url].wf THEN {"nav"}
  ELSE IF HasListings(urls[req.url].shop, ServedPage(req.page)) THEN {"ok"}
  ELSE {"nav", "nolist", "eval", "vanish"}

\* puppeteer.launch() resolves (TRUE) or rejects (FALSE)
LaunchOutcomes == BOOLEAN
\* browser.newPage()
NewPageOutcomes == IF dynamic THEN BOOLEAN ELSE {TRUE}
\* page.goto()
GotoOutcomes == IF fate = "free" THEN BOOLEAN ELSE {fate # "nav"}
\* document.querySelectorAll(sel).length for candidate sel; -1: evaluate rejects
ProbeOutcomes(sel) ==
  CASE fate = "free" -> -1..MaxCount
    [] fate = "nolist" -> {0}
    [] OTHER -> IF sel = 1 THEN {ListingCount(ServedPage(pageReq.page))} ELSE {0}
\* the count of one scroll iteration; -1: evaluate rejects
ScrollOutcomes ==
  CASE fate = "free" -> -1..MaxCount
    [] fate = "vanish" -> {0}
    [] OTHER -> {ListingCount(ServedPage(pageReq.page))}
\* the number of elements the extraction script maps; -1: evaluate rejects
ExtractOutcomes ==
  CASE fate = "free" -> -1..MaxCount
    [] fate = "eval" -> {-1}
    [] fate = "vanish" -> {0}
    [] OTHER -> {ListingCount(ServedPage(pageReq.page))}
\* the serializer of the response file returns (TRUE) or throws (FALSE)
GenerateOutcomes == BOOLEAN

\* ------------------------------------------------------------ LazadaScraper
\* faulty variant: close() without this.browser = null
ScraperCloseKeepsHandle ==
  IF browser = "open"
    THEN /\ closes' = closes + 1 /\ closeCalls' = closeCalls + 1
         /\ UNCHANGED <<browser, launches>>
    ELSE closeCalls' = closeCalls + 1 /\ UNCHANGED <<browser, launches, closes>>

\* close(): if (this.browser) { await this.browser.close(); this.browser = null }
ScraperClose ==
  IF browser = "open"
    THEN /\ browser' = "null" /\ closes' = closes + 1
         /\ closeCalls' = closeCalls + 1 /\ UNCHANGED launches
    ELSE closeCalls' = closeCalls + 1 /\ UNCHANGED <<browser, launches, closes>>

\* what a page harvest leaves alone
callerVars == <<envVars, routeVars, driverVars, requested, clientPc>>

\* a caller awaits scrapeShopPage(req) (startPc "start") or
\* scrapeProductPage(req) (startPc "pstart")
CallPage(startPc, req) ==
  /\ pagePc' = startPc
  /\ pageReq' = req
  /\ UNCHANGED <<pagesOpen, fate, selIdx, workingSelector, scrollVars,
                 pageResult, pageError>>

\* faulty variant: the caller goes on while the page is being loaded
PageReturnedOrLoading == pagePc \in {"returned", "goto"}

\* await scrapeShopPage(...) resolves: the call has returned
PageReturned == pagePc = "returned"

\* the caller has taken the result of the page harvest
PageTaken ==
  /\ pagePc' = "idle"
  /\ UNCHANGED <<pageReq, pagesOpen, fate, selIdx, workingSelector, scrollVars,
                 pageResult, pageError>>

\* the page harvest in hand ended with count records (-1: it threw)
HarvestEnded(count) ==
  harvested' = Append(harvested, [req |-> pageReq, count |-> count])

\* faulty variant: every page harvest launches a browser
NeedsLaunchAlways == TRUE

\* if (!this.browser)
NeedsLaunch == browser = "null"

\* both harvesters, up to the try block: if (!this.browser) await
\* this.initialize(); const page = await this.browser.newPage()
Begin(startPc, nextPc) ==
  /\ pagePc = startPc
  /\ \E launched \in (IF NeedsLaunch THEN LaunchOutcomes ELSE {TRUE}),
        opened \in NewPageOutcomes, f \in Fates(pageReq) :
       /\ IF NeedsLaunch /\ launched
            THEN /\ browser' = "open" /\ launches' = launches + 1
                 /\ UNCHANGED <<closes, closeCalls>>
            ELSE UNCHANGED browserVars
       /\ IF ~launched
            THEN /\ pagePc' = "threw"
                 /\ pageError' = Error("Failed to launch the browser process")
                 /\ HarvestEnded(-1)
                 /\ UNCHANGED <<pagesOpen, fate>>
          ELSE IF ~opened
            THEN /\ pagePc' = "threw"
                 /\ pageError' = Error("Protocol error")
                 /\ HarvestEnded(-1)
                 /\ UNCHANGED <<pagesOpen, fate>>
          ELSE /\ pagePc' = nextPc
               /\ pagesOpen' = pagesOpen + 1
               /\ fate' = f
               /\ pageError' = NoError
               /\ UNCHANGED harvested
  /\ pageResult' = <<>>
  /\ UNCHANGED <<callerVars, pageReq, selIdx, workingSelector, scrollVars>>

\* faulty variant: a catch block without page.close()
CatchLeavesPageOpen == UNCHANGED pagesOpen

\* await page.close() of a catch block
CatchCloses == pagesOpen' = pagesOpen - 1

\* both harvesters: catch (error) { await page.close(); throw new Error(...) }
Catch(catchPc, prefix) ==
  /\ pagePc = catchPc
  /\ CatchCloses
  /\ pageError' = [prefix |-> prefix, message |-> pageError.message]
  /\ pagePc' = "threw"
  /\ HarvestEnded(-1)
  /\ UNCHANGED <<callerVars, browserVars, pageReq, fate, selIdx, workingSelector,
                 scrollVars, pageResult>>

\* both harvesters: await page.close(); return the result
Close(closePc) ==
  /\ pagePc = closePc
  /\ pagesOpen' = pagesOpen - 1
  /\ pagePc' = "returned"
  /\ HarvestEnded(Len(pageResult))
  /\ UNCHANGED <<callerVars, browserVars, pageReq, fate, selIdx, workingSelector,
                 scrollVars, pageResult, pageError>>

\* ------------------------------------------------------------ scrapeShopPage
PageBegin == Begin("start", "goto")

\* setViewport, goto and the three-second wait
PageGoto ==
  /\ pagePc = "goto"
  /\ \E ok \in GotoOutcomes :
       IF ok
         THEN pagePc' = "probe" /\ selIdx' = 1 /\ UNCHANGED pageError
         ELSE /\ pagePc' = "catch"
              /\ pageError' = Error("Navigation timeout")
              /\ UNCHANGED selIdx
  /\ workingSelector' = 0
  /\ UNCHANGED <<callerVars, browserVars, harvested, pageReq, pagesOpen, fate,
                 scrollVars, pageResult>>

\* faulty variant: the loop stays at the candidate it is at
SameSelector(sel) == sel

\* for (const selector of productSelectors): the candidate after sel
NextSelector(sel) == sel + 1

\* faulty variant: a candidate is taken whatever its count
MatchesAlways(count) == count >= 0

\* if (count > 0)
Matches(count) == count > 0

\* one turn of the loop over productSelectors, and what follows it when it
\* ends: the throw when no selector worked, else the scroll loop's variables
PageProbe ==
  /\ pagePc = "probe"
  /\ \E count \in ProbeOutcomes(selIdx) :
       IF count = -1
         THEN /\ pagePc' = "catch"
              /\ pageError' = Error("Evaluation failed")
              /\ UNCHANGED <<selIdx, workingSelector, scrollVars>>
       ELSE /\ probed' = Append(SubSeq(probed, 1, selIdx - 1), count)
            /\ IF Matches(count)
                 THEN /\ workingSelector' = selIdx
                      /\ previousCount' = 0 /\ stableCount' = 0
                      /\ scrollAttempts' = 0 /\ iters' = 0
                      /\ usedSelectors' = {} /\ observedLast' = -1
                      /\ unchangedRun' = 0
                      /\ pagePc' = "scroll"
                      /\ UNCHANGED <<selIdx, pageError>>
               ELSE IF selIdx < NumSelectors
                 THEN /\ selIdx' = NextSelector(selIdx)
                      /\ UNCHANGED <<pagePc, workingSelector, previousCount,
                                     stableCount, scrollAttempts, iters,
                                     usedSelectors, observedLast, unchangedRun,
                                     pageError>>
               ELSE /\ pagePc' = "catch"
                    /\ pageError' = Error("Could not find product elements on page")
                    /\ UNCHANGED <<selIdx, workingSelector, previousCount,
                                   stableCount, scrollAttempts, iters,
                                   usedSelectors, observedLast, unchangedRun>>
  /\ UNCHANGED <<callerVars, browserVars, harvested, pageReq, pagesOpen, fate,
                 pageResult>>

\* if (currentCount === previousCount) stableCount++ else stableCount = 0
StableAfter(stable, current, previous) ==
  IF current = previous THEN stable + 1 ELSE 0

\* the break of the scroll loop, with stable the counter just updated
ScrollBreaks(stable, current, previous) ==
  current = previous /\ stable >= StableThreshold

\* faulty variant: scrollAttempts <= maxScrollAttempts
ScrollContinuesOffByOne(attempts) == attempts <= maxScrollAttempts

\* while (scrollAttempts < maxScrollAttempts)
ScrollContinues(attempts) == attempts < maxScrollAttempts

\* one iteration of the scroll loop: click "load more", scroll down, wait,
\* count, compare; then the loop's condition
PageScroll ==
  /\ pagePc = "scroll"
  /\ \E count \in ScrollOutcomes :
       IF count = -1
         THEN /\ pagePc' = "catch"
              /\ pageError' = Error("Evaluation failed")
              /\ UNCHANGED scrollVars
       ELSE LET stable == StableAfter(stableCount, count, previousCount) IN
            /\ iters' = iters + 1
            /\ stableCount' = stable
            /\ usedSelectors' = usedSelectors \cup {workingSelector}
            /\ observedLast' = count
            /\ unchangedRun' = IF count = observedLast THEN unchangedRun + 1 ELSE 0
            /\ UNCHANGED probed
            /\ UNCHANGED pageError
            /\ IF ScrollBreaks(stable, count, previousCount)
                 THEN /\ pagePc' = "extract"
                      /\ UNCHANGED <<previousCount, scrollAttempts>>
                 ELSE /\ previousCount' = count
                      /\ scrollAttempts' = scrollAttempts + 1
                      /\ pagePc' = IF ScrollContinues(scrollAttempts + 1)
                                     THEN "scroll" ELSE "extract"
  /\ UNCHANGED <<callerVars, browserVars, harvested, pageReq, pagesOpen, fate,
                 selIdx, workingSelector, pageResult>>

\* scroll to the top, wait, and map every element the working selector
\* matches to a record
PageExtract ==
  /\ pagePc = "extract"
  /\ usedSelectors' = usedSelectors \cup {workingSelector}
  /\ \E n \in ExtractOutcomes :
       IF n = -1
         THEN /\ pagePc' = "catch"
              /\ pageError' = Error("Evaluation failed")
              /\ UNCHANGED pageResult
         ELSE /\ pagePc' = "close"
              /\ pageResult' = Listings(pageReq.url, ServedPage(pageReq.page), n)
              /\ UNCHANGED pageError
  /\ UNCHANGED <<callerVars, browserVars, harvested, pageReq, pagesOpen, fate,
                 selIdx, workingSelector, previousCount, stableCount,
                 scrollAttempts, iters, probed, observedLast, unchangedRun>>

PageClose == Close("close")

PageCatch == Catch("catch", "Failed to scrape shop page")

\* --------------------------------------------------------- scrapeProductPage
ProductBegin == Begin("pstart", "pgoto")

\* setViewport and goto
ProductGoto ==
  /\ pagePc = "pgoto"
  /\ \E ok \in GotoOutcomes :
       IF ok
         THEN pagePc' = "pwait" /\ UNCHANGED pageError
         ELSE pagePc' = "pcatch" /\ pageError' = Error("Navigation timeout")
  /\ UNCHANGED <<callerVars, browserVars, harvested, pageReq, pagesOpen, fate,
                 selIdx, workingSelector, scrollVars, pageResult>>

\* await page.waitForSelector(...).catch(() => {}): a timeout is swallowed
ProductWait ==
  /\ pagePc = "pwait"
  /\ \E found \in BOOLEAN : pagePc' = "pextract"
  /\ UNCHANGED <<callerVars, browserVars, harvested, pageReq, pagesOpen, fate,
                 selIdx, workingSelector, scrollVars, pageResult, pageError>>

\* page.evaluate of the product script: one record
ProductExtract ==
  /\ pagePc = "pextract"
  /\ \E ok \in BOOLEAN :
       IF ok
         THEN /\ pagePc' = "pclose"
              /\ pageResult' = Listings(pageReq.url, ServedPage(pageReq.page), 1)
              /\ UNCHANGED pageError
         ELSE /\ pagePc' = "pcatch"
              /\ pageError' = Error("Evaluation failed")
              /\ UNCHANGED pageResult
  /\ UNCHANGED <<callerVars, browserVars, harvested, pageReq, pagesOpen, fate,
                 selIdx, workingSelector, scrollVars>>

ProductClose == Close("pclose")

ProductCatch == Catch("pcatch", "Failed to scrape product")

\* -------------------------------------------------- export const lazadaScraper
\* a caller of the exported scraper awaits one harvest
ClientCall ==
  /\ clientPc = "ready"
  /\ \E startPc \in {"start", "pstart"}, p \in {Absent, PageParam(<<"2">>)} :
       /\ CallPage(startPc, [url |-> 1, page |-> p,
                              query |-> Url(p, FiniteShop(0)).query])
       /\ requested' = Append(requested,
                              [url |-> 1, page |-> p,
                               query |-> Url(p, FiniteShop(0)).query])
  /\ clientPc' = "await"
  /\ UNCHANGED <<envVars, routeVars, browserVars, driverVars, harvested>>

\* the harvest returned or threw
ClientDone ==
  /\ clientPc = "await"
  /\ pagePc \in {"returned", "threw"}
  /\ PageTaken
  /\ clientPc' = "done"
  /\ UNCHANGED <<envVars, routeVars, browserVars, driverVars, requested, harvested>>

\* ---------------------------------------- scrapeShopPageWithAutoPagination
\* if (pageParam) currentPage = parseInt(pageParam), else it stays 1
StartPage(param) ==
  IF param.present /\ param.text # <<>> THEN parseInt(param.text) ELSE Num(1)

\* while (currentPage <= maxPages): false for NaN
LoopContinues(cp) == ~cp.nan /\ cp.n <= maxPages

\* faulty variant: no test for an empty page
NeverEmpty(pageProducts) == FALSE

\* if (pageProducts.length === 0)
IsEmptyPage(pageProducts) == Len(pageProducts) = 0

\* allProducts.push(...pageProducts)
Push(acc, pageProducts) == acc \o pageProducts

\* urlObj.searchParams.set('page', currentPage.toString()) on the URL in hand
PageUrl(cp) ==
  LET query == SearchParamsSet(urls[urlIdx].query, "page", toString(cp.n))
  IN  [url |-> urlIdx, page |-> SearchParamsGet(query, "page"), query |-> query]

\* the head of the pagination loop with currentPage = cp: set the page
\* parameter and await scrapeShopPage, or leave the loop and return
DriverLoop(cp) ==
  IF LoopContinues(cp)
    THEN /\ driverPc' = "awaitPage"
         /\ CallPage("start", PageUrl(cp))
         /\ requested' = Append(requested, PageUrl(cp))
         /\ terminatedReason' = ""
    ELSE /\ driverPc' = "returned"
         /\ terminatedReason' = "PAGE_LIMIT"
         /\ PageTaken
         /\ UNCHANGED requested

\* new URL(url), the page parameter, the warnings, the first loop test
DriverStart ==
  /\ driverPc = "start"
  /\ driverProducts' = <<>>
  /\ IF ~urls[urlIdx].wf
       THEN /\ driverPc' = "threw"
            /\ driverError' = Error("Invalid URL")
            /\ terminatedReason' = ""
            /\ UNCHANGED <<currentPage, requested, pageVars>>
       ELSE /\ currentPage' = StartPage(urls[urlIdx].page)
            /\ driverError' = NoError
            /\ DriverLoop(StartPage(urls[urlIdx].page))
  /\ UNCHANGED <<envVars, routeVars, browserVars, harvested, clientPc>>

\* scrapeShopPage returned: break on an empty page, else push the records,
\* increment, wait two seconds and test the loop condition
DriverPageReturned ==
  /\ driverPc = "awaitPage"
  /\ PageReturned
  /\ IF IsEmptyPage(pageResult)
       THEN /\ driverPc' = "returned"
            /\ terminatedReason' = "EMPTY_PAGE"
            /\ PageTaken
            /\ UNCHANGED <<currentPage, driverProducts, requested>>
       ELSE /\ driverProducts' = Push(driverProducts, pageResult)
            /\ currentPage' = Num(currentPage.n + 1)
            /\ DriverLoop(Num(currentPage.n + 1))
  /\ UNCHANGED <<envVars, routeVars, browserVars, driverError, harvested, clientPc>>

\* faulty variant: the catch rethrows
DriverRethrows ==
  /\ driverPc' = "threw"
  /\ driverError' = pageError
  /\ terminatedReason' = "ERROR"

\* catch (error) { console.log(...); break } and the return after the loop
DriverCatch ==
  /\ driverPc' = "returned"
  /\ terminatedReason' = "ERROR"
  /\ UNCHANGED driverError

\* scrapeShopPage threw
DriverPageThrew ==
  /\ driverPc = "awaitPage"
  /\ pagePc = "threw"
  /\ DriverCatch
  /\ PageTaken
  /\ UNCHANGED <<envVars, routeVars, browserVars, currentPage, driverProducts,
                 requested, harvested, clientPc>>

\* ------------------------------------------------- POST /api/scrape-lazada
\* the outer catch is entered with error e
RouteThrow(e) ==
  /\ routePc' = "catch"
  /\ routeError' = e

RejectedUnlessEmpty(kind, list) == kind \in {"missing", "notArray"}

\* !urls || !Array.isArray(urls) || urls.length === 0, and the same test of
\* jsonStrings in POST /api/extract
Rejected(kind, list) == kind \in {"missing", "notArray"} \/ Len(list) = 0

\* request.json() and the check of urls
RouteParse ==
  /\ routePc = "start"
  /\ IF bodyKind = "invalidJson"
       THEN RouteThrow(Error("Unexpected token")) /\ UNCHANGED response
     ELSE IF Rejected(bodyKind, urls)
       THEN /\ routePc' = "done"
            /\ response' = [status |-> 400, total |-> 0,
                            error |-> "Please provide an array of Lazada shop URLs",
                            details |-> ""]
            /\ UNCHANGED routeError
     ELSE routePc' = "initialize" /\ UNCHANGED <<routeError, response>>
  /\ UNCHANGED <<envVars, urlIdx, allProducts, perUrlErrors, attempted, harvestRuns,
                 browserVars, driverVars, requested, harvested, pageVars, clientPc>>

\* await scraper.initialize(); let allProducts = []
RouteInitialize ==
  /\ routePc = "initialize"
  /\ \E launched \in LaunchOutcomes :
       IF launched
         THEN /\ browser' = "open" /\ launches' = launches + 1
              /\ UNCHANGED <<closes, closeCalls>>
              /\ routePc' = "loop" /\ urlIdx' = 1 /\ allProducts' = <<>>
              /\ UNCHANGED routeError
         ELSE /\ RouteThrow(Error("Failed to launch the browser process"))
              /\ UNCHANGED <<browserVars, urlIdx, allProducts>>
  /\ UNCHANGED <<envVars, perUrlErrors, response, attempted, harvestRuns, driverVars,
                 requested, harvested, pageVars, clientPc>>

\* the next URL of the for loop: await the driver or the page harvester
RouteCallUrl ==
  /\ routePc = "loop"
  /\ urlIdx <= Len(urls)
  /\ routePc' = "awaitUrl"
  /\ attempted' = Append(attempted, urlIdx)
  /\ harvested' = <<>>
  /\ IF autoPaginate
       THEN /\ driverPc' = "start"
            /\ requested' = <<>>
            /\ UNCHANGED <<currentPage, driverProducts, driverError,
                           terminatedReason, pageVars>>
       ELSE /\ CallPage("start", [url |-> urlIdx, page |-> urls[urlIdx].page,
                                   query |-> urls[urlIdx].query])
            /\ requested' = <<[url |-> urlIdx, page |-> urls[urlIdx].page,
                               query |-> urls[urlIdx].query]>>
            /\ UNCHANGED driverVars
  /\ UNCHANGED <<envVars, urlIdx, allProducts, perUrlErrors, routeError, response,
                 harvestRuns, browserVars, clientPc>>

\* what the harvest of the URL in hand came to
HarvestRun(products, threw) ==
  [url |-> urlIdx, records |-> Len(products), threw |-> threw,
   reason |-> IF autoPaginate THEN terminatedReason ELSE "SINGLE_PAGE_MODE",
   pages |-> harvested]

\* faulty variant: [...products, ...allProducts]
MergeInFront(all, products) == products \o all

\* allProducts = [...allProducts, ...products]
Merge(all, products) == all \o products

\* products came back
RouteUrlReturned ==
  /\ routePc = "awaitUrl"
  /\ IF autoPaginate
       THEN /\ driverPc = "returned"
            /\ allProducts' = Merge(allProducts, driverProducts)
            /\ harvestRuns' = Append(harvestRuns, HarvestRun(driverProducts, FALSE))
            /\ driverPc' = "idle"
            /\ UNCHANGED <<currentPage, driverProducts, driverError,
                           terminatedReason, pageVars>>
       ELSE /\ PageReturned
            /\ allProducts' = Merge(allProducts, pageResult)
            /\ harvestRuns' = Append(harvestRuns, HarvestRun(pageResult, FALSE))
            /\ PageTaken
            /\ UNCHANGED driverVars
  /\ urlIdx' = urlIdx + 1
  /\ routePc' = "loop"
  /\ UNCHANGED <<envVars, perUrlErrors, routeError, response, attempted, browserVars,
                 requested, harvested, clientPc>>

\* faulty variant: the inner catch rethrows to the outer one
RouteRethrowsUrl(e) ==
  /\ RouteThrow(e)
  /\ UNCHANGED <<perUrlErrors, urlIdx>>

\* faulty variant: the inner catch without console.error
RouteCatchUrlUnlogged(e) ==
  /\ urlIdx' = urlIdx + 1
  /\ routePc' = "loop"
  /\ UNCHANGED <<perUrlErrors, routeError>>

\* catch (error) { console.error(`Failed to scrape ${url}:`, error) }: the
\* failure is logged against the URL and the for loop goes on
RouteCatchUrl(e) ==
  /\ perUrlErrors' = Append(perUrlErrors, [url |-> urlIdx, error |-> e])
  /\ urlIdx' = urlIdx + 1
  /\ routePc' = "loop"
  /\ UNCHANGED routeError

\* the harvest of the URL threw
RouteUrlThrew ==
  /\ routePc = "awaitUrl"
  /\ IF autoPaginate
       THEN /\ driverPc = "threw"
            /\ RouteCatchUrl(driverError)
            /\ driverPc' = "idle"
            /\ UNCHANGED <<currentPage, driverProducts, driverError,
                           terminatedReason, pageVars>>
       ELSE /\ pagePc = "threw"
            /\ RouteCatchUrl(pageError)
            /\ PageTaken
            /\ UNCHANGED driverVars
  /\ harvestRuns' = Append(harvestRuns, HarvestRun(<<>>, TRUE))
  /\ UNCHANGED <<envVars, allProducts, response, attempted, browserVars,
                 requested, harvested, clientPc>>

\* after the loop: await scraper.close(), then the 400 for an empty result
RouteClose ==
  /\ routePc = "loop"
  /\ urlIdx > Len(urls)
  /\ ScraperClose
  /\ IF Len(allProducts) = 0
       THEN /\ routePc' = "done"
            /\ response' = [status |-> 400, total |-> 0,
                            error |-> "No products found or scraping failed",
                            details |-> ""]
       ELSE routePc' = "generate" /\ UNCHANGED response
  /\ UNCHANGED <<envVars, urlIdx, allProducts, perUrlErrors, routeError, attempted,
                 harvestRuns, driverVars, requested, harvested, pageVars, clientPc>>

\* the switch on format and the 200 response
RouteGenerate ==
  /\ routePc = "generate"
  /\ \E written \in GenerateOutcomes :
       IF written
         THEN /\ routePc' = "done"
              /\ response' = [status |-> 200, total |-> Len(allProducts),
                              error |-> "", details |-> ""]
              /\ UNCHANGED routeError
         ELSE RouteThrow(Error("Failed to write file")) /\ UNCHANGED response
  /\ UNCHANGED <<envVars, urlIdx, allProducts, perUrlErrors, attempted, harvestRuns,
                 browserVars, driverVars, requested, harvested, pageVars, clientPc>>

\* catch (error) { await scraper.close(); ... status 500 }
RouteCatch ==
  /\ routePc = "catch"
  /\ ScraperClose
  /\ routePc' = "done"
  /\ response' = [status |-> 500, total |-> 0, error |-> "Failed to scrape data",
                  details |-> routeError.message]
  /\ UNCHANGED <<envVars, urlIdx, allProducts, perUrlErrors, routeError, attempted,
                 harvestRuns, driverVars, requested, harvested, pageVars, clientPc>>

\* ---------------------------------------------------------- specifications
Next ==
  \/ RouteParse \/ RouteInitialize \/ RouteCallUrl \/ RouteUrlReturned
  \/ RouteUrlThrew \/ RouteClose \/ RouteGenerate \/ RouteCatch
  \/ DriverStart \/ DriverPageReturned \/ DriverPageThrew
  \/ PageBegin \/ PageGoto \/ PageProbe \/ PageScroll \/ PageExtract
  \/ PageClose \/ PageCatch

\* a request to the route
Spec == Init /\ [][Next]_vars

\* every call of the browser driver returns or throws, and the continuation
\* of an await that settled runs: a step that can be taken is taken
SpecLive == Spec /\ WF_vars(Next)

NextPage ==
  \/ ClientCall \/ ClientDone
  \/ PageBegin \/ PageGoto \/ PageProbe \/ PageScroll \/ PageExtract
  \/ PageClose \/ PageCatch
  \/ ProductBegin \/ ProductGoto \/ ProductWait \/ ProductExtract
  \/ ProductClose \/ ProductCatch

\* one page harvest
SpecPage == InitPage /\ [][NextPage]_vars

\* ------------------------------------------- callers of getMonthlySoldInfo
\* the scraping path at rest
scrapeVars ==
  <<bodyKind, urls, autoPaginate, dynamic, routeVars, browserVars, driverVars,
    requested, harvested, pageVars, clientPc>>

ScrapeOff ==
  /\ bodyKind = "array" /\ urls = <<>> /\ autoPaginate = FALSE /\ dynamic = FALSE
  /\ routePc = "off" /\ clientPc = "off" /\ browser = "null" /\ launches = 0
  /\ InitFrames

InitQuantity ==
  /\ qRaw \in QuantityInputs
  /\ qCalls = 0 /\ qFirst = NoInfo /\ qInfo = NoInfo /\ qAgain = NoInfo
  /\ ScrapeOff /\ ExportOff

\* getMonthlySoldInfo(monthlySold)
Normalize ==
  /\ qCalls < MaxCalls
  /\ qCalls' = qCalls + 1
  /\ qInfo' = getMonthlySoldInfo(qRaw)
  /\ qFirst' = IF qCalls = 0 THEN getMonthlySoldInfo(qRaw) ELSE qFirst
  /\ UNCHANGED <<qRaw, qAgain, scrapeVars, exportVars>>

\* getMonthlySoldInfo(numeric.toString()) for the numeric value of a result
Renormalize ==
  /\ qCalls > 0 /\ qAgain = NoInfo
  /\ qAgain' = getMonthlySoldInfo(Text(numberToString(qInfo.numeric)))
  /\ UNCHANGED <<qRaw, qCalls, qFirst, qInfo, scrapeVars, exportVars>>

NextQuantity == Normalize \/ Renormalize

\* calls of the Numeric Normalizer
SpecQuantity == InitQuantity /\ [][NextQuantity]_vars

\* ----------------------- POST /api/extract, the script and the exports
\* a request to POST /api/extract, or the listing elements of a page
InitExport ==
  /\ exportPc \in {"start", "dom"}
  /\ xBody \in IF exportPc = "start"
                THEN {"invalidJson", "missing", "notArray", "array"}
                ELSE {"array"}
  /\ xJsonStrings \in IF exportPc = "start" /\ xBody = "array"
                       THEN UNION {SeqsOf(JsonPool, n) : n \in 0..MaxJsons}
                       ELSE {<<>>}
  /\ xFormat \in IF exportPc = "start" /\ xBody = "array"
                  THEN {"excel", "csv", "json", "other"}
                  ELSE {"json"}
  /\ domItems \in IF exportPc = "dom" THEN DomLists ELSE {<<>>}
  /\ xResult = processMultipleJsons(<<>>)
  /\ xResponse = [NoResponse EXCEPT !.details = <<>>]
  /\ scraped = <<>> /\ file = NoFile
  /\ ScrapeOff /\ QuantityOff

\* const body = await request.json()
ExtractParse ==
  /\ exportPc = "start"
  /\ exportPc' = IF xBody = "invalidJson" THEN "catch" ELSE "parsed"
  /\ UNCHANGED <<xBody, xJsonStrings, xFormat, xResponse, domItems, scraped,
                 file, xResult,
                 scrapeVars, quantityVars>>

\* switch (format): the file of POST /api/extract
extractFile(format, products) ==
  CASE format = "excel" -> generateExcel(products)
    [] format = "csv" -> generateCSV(products)
    [] OTHER -> generateJSON(products)

\* the rest of POST /api/extract: the 400 responses, the file and the 200
\* response with its statistics headers
ExtractRespond ==
  /\ exportPc = "parsed"
  /\ exportPc' = "done"
  /\ IF Rejected(xBody, xJsonStrings)
       THEN /\ xResponse' = [status |-> 400, total |-> 0,
                             error |-> "Please provide an array of JSON strings",
                             details |-> <<>>]
            /\ UNCHANGED <<xResult, file>>
       ELSE /\ xResult' = processMultipleJsons(xJsonStrings)
            /\ IF Len(xResult'.products) = 0
                 THEN /\ xResponse' = [status |-> 400, total |-> 0,
                                       error |-> "No products found",
                                       details |-> xResult'.stats.errors]
                      /\ UNCHANGED file
                 ELSE /\ file' = extractFile(xFormat, xResult'.products)
                      /\ xResponse' = [status |-> 200,
                                       total |-> xResult'.stats.totalProducts,
                                       error |-> "", details |-> <<>>]
  /\ UNCHANGED <<xBody, xJsonStrings, xFormat, domItems, scraped, scrapeVars,
                 quantityVars>>

\* catch (error) { ... status 500 }
ExtractCatch ==
  /\ exportPc = "catch"
  /\ exportPc' = "done"
  /\ xResponse' = [status |-> 500, total |-> 0,
                   error |-> "Failed to process data",
                   details |-> <<"Unexpected token">>]
  /\ UNCHANGED <<xBody, xJsonStrings, xFormat, domItems, scraped, file,
                 xResult,
                 scrapeVars, quantityVars>>

\* page.evaluate of the extraction script
EvaluateScript ==
  /\ exportPc = "dom"
  /\ scraped' = Extraction(domItems)
  /\ exportPc' = "scraped"
  /\ UNCHANGED <<xBody, xJsonStrings, xFormat, xResponse, domItems, file,
                 xResult,
                 scrapeVars, quantityVars>>

\* switch (format): the file of POST /api/scrape-lazada
routeFile(format, products) ==
  CASE format = "excel" -> [format |-> "excel", sheets |-> <<routeRows(products)>>]
    [] format = "csv" -> [format |-> "csv", sheets |-> <<routeRows(products)>>]
    [] OTHER -> stringify(products)

\* POST /api/scrape-lazada writes the file of the records scraped
RouteWriteFile ==
  /\ exportPc = "scraped" /\ Len(scraped) > 0
  /\ exportPc' = "done"
  /\ \E format \in {"excel", "csv", "json", "other"} :
       file' = routeFile(format, scraped)
  /\ UNCHANGED <<xBody, xJsonStrings, xFormat, xResponse, domItems, scraped,
                 xResult,
                 scrapeVars, quantityVars>>

NextExport ==
  ExtractParse \/ ExtractRespond \/ ExtractCatch \/ EvaluateScript \/ RouteWriteFile

\* POST /api/extract, and the extraction script with the exports of route.ts
SpecExport == InitExport /\ [][NextExport]_vars

\* a request to either route: POST /api/scrape-lazada or POST /api/extract
SpecRoutes == (Init \/ InitExport) /\ [][Next \/ NextExport]_vars

\* ------------------------------------------------------------------ claims
\* What the storefront holds, computed from the request alone.

\* the records of the pages p, p+1, ... of URL i up to the first page without
\* listings or the page ceiling
RECURSIVE PagesFrom(_, _)
PagesFrom(i, p) ==
  IF p <= maxPages /\ HasListings(urls[i].shop, p)
    THEN Listings(i, p, ListingCount(p)) \o PagesFrom(i, p + 1)
    ELSE <<>>

\* the records a harvest of URL i is to return
ExpectedRecords(i) ==
  IF ~urls[i].wf THEN <<>>
  ELSE IF autoPaginate
    THEN IF StartPage(urls[i].page).nan THEN <<>>
         ELSE PagesFrom(i, StartPage(urls[i].page).n)
  ELSE IF HasListings(urls[i].shop, ServedPage(urls[i].page))
    THEN Listings(i, ServedPage(urls[i].page),
                  ListingCount(ServedPage(urls[i].page)))
  ELSE <<>>

\* the URLs with an entry in perUrlErrors, in the order of the entries
ErrorUrls == [k \in 1..Len(perUrlErrors) |-> perUrlErrors[k].url]
ErrorUrlSet == {perUrlErrors[k].url : k \in 1..Len(perUrlErrors)}

\* the records of the first k URLs, those with an error entry left out
RECURSIVE ConcatSucceeded(_)
ConcatSucceeded(k) ==
  IF k = 0 THEN <<>>
  ELSE ConcatSucceeded(k - 1)
         \o (IF k \in ErrorUrlSet THEN <<>> ELSE ExpectedRecords(k))

RECURSIVE SumRecords(_)
SumRecords(k) ==
  IF k = 0 THEN 0 ELSE SumRecords(k - 1) + harvestRuns[k].records

\* the records of the page harvests of a log, in its order
RECURSIVE RecordsOf(_)
RecordsOf(log) ==
  IF log = <<>> THEN <<>>
  ELSE Listings(log[1].req.url, ServedPage(log[1].req.page), log[1].count)
         \o RecordsOf(Tail(log))

\* the indices 1..n in order
Indices(n) == [k \in 1..n |-> k]

\* the indices i in 1..n with P(i), in order
Select(n, P(_)) == SelectSeq(Indices(n), P)

\* the first page harvest of a run threw
FirstHarvestRaised(run) == run.pages # <<>> /\ run.pages[1].count = -1

\* URL i contributed no record because its harvest failed at the outset
FailedEntirely(i) == ~urls[i].wf \/ FirstHarvestRaised(harvestRuns[i])

AfterLoop == routePc \in {"generate", "catch", "done"} /\ launches > 0

\* C1: a failure while harvesting one URL never aborts the batch: once the
\* browser is launched every URL of the input is harvested, in input order,
\* whatever became of the URLs before it.
C1_FailureNeverAbortsBatch ==
  /\ routePc = "loop" => attempted = Indices(urlIdx - 1)
  /\ routePc = "awaitUrl" => attempted = Indices(urlIdx)
  /\ AfterLoop => attempted = Indices(Len(urls))
  /\ Len(harvestRuns) <= Len(attempted)

C1_Witness ==
  /\ routePc = "done" /\ ~autoPaginate /\ Len(harvestRuns) = 3
  /\ harvestRuns[1].threw
  /\ attempted = <<1, 2, 3>>
  /\ harvestRuns[3].records > 0

\* C2 as stated: after a batch run perUrlErrors has exactly one entry for
\* each URL that failed entirely and none for any other URL, in both modes.
C2_OneEntryPerFailedUrl ==
  (routePc = "done" /\ launches > 0)
    => ErrorUrls = Select(Len(urls), FailedEntirely)

\* C2 as amended: perUrlErrors has exactly one entry, holding the error, for
\* each URL whose harvest threw to POST and none for any other URL: in
\* single-page mode these are the URLs whose page harvest raised, in
\* auto-paginate mode only the URLs that new URL() rejects, a page failure
\* being absorbed by the driver; and a URL with an entry adds no record.
C2_EntryPerThrownHarvest ==
  LET done == Len(harvestRuns)
      Threw(i) == IF autoPaginate THEN ~urls[i].wf
                  ELSE FirstHarvestRaised(harvestRuns[i])
  IN  /\ ErrorUrls = Select(done, Threw)
      /\ \A k \in 1..Len(perUrlErrors) :
           /\ perUrlErrors[k].error.message # ""
           /\ harvestRuns[perUrlErrors[k].url].records = 0
      /\ Len(allProducts) = SumRecords(done)

C2_Witness ==
  /\ routePc = "done" /\ Len(harvestRuns) = 3 /\ autoPaginate
  /\ FirstHarvestRaised(harvestRuns[2])
  /\ ErrorUrls = <<>>
  /\ allProducts = ExpectedRecords(1) \o ExpectedRecords(3)
  /\ ExpectedRecords(1) # <<>> /\ ExpectedRecords(3) # <<>>

\* C3: after any prefix of the URLs, allProducts is the concatenation, in
\* input order, of the records of the URLs that succeeded, each in page order
\* and document order; its length is the sum of the per-URL lengths; a URL
\* that failed adds nothing.
C3_RecordsInInputOrder ==
  LET done == Len(harvestRuns) IN
  /\ urlIdx > 0 => done \in {urlIdx - 1, urlIdx}
  /\ routePc \in {"loop", "awaitUrl"} => done = urlIdx - 1
  /\ allProducts = ConcatSucceeded(done)
  /\ Len(allProducts) = SumRecords(done)

C3_Witness ==
  /\ routePc = "loop" /\ Len(harvestRuns) = 3 /\ autoPaginate
  /\ harvestRuns[1].records > MaxCount /\ Len(harvestRuns[1].pages) > 2
  /\ harvestRuns[2].threw
  /\ harvestRuns[3].records > 0
  /\ Len(allProducts) = harvestRuns[1].records + harvestRuns[3].records

\* C4: the pagination driver stops at the first page that returns zero
\* records: no page is requested after it, the reason is EMPTY_PAGE and the
\* result is the records of the pages before it, in page order.
C4_StopsAtEmptyPage ==
  autoPaginate =>
    LET n == Len(harvested) IN
    /\ \A k \in 1..n : harvested[k].count = 0 => k = n /\ Len(requested) = n
    /\ (driverPc = "returned" /\ n > 0 /\ harvested[n].count = 0) =>
         /\ terminatedReason = "EMPTY_PAGE"
         /\ driverProducts = RecordsOf(SubSeq(harvested, 1, n - 1))

C4_Witness ==
  /\ driverPc = "returned" /\ terminatedReason = "EMPTY_PAGE"
  /\ Len(harvested) = 3 /\ harvested[3].count = 0
  /\ driverProducts = Listings(urlIdx, 1, ListingCount(1))
                        \o Listings(urlIdx, 2, ListingCount(2))

\* C5 as stated: whatever the page parameter of the seed URL, the driver
\* calls the page harvester at most maxPages times.
C5_AtMostMaxPagesHarvests ==
  autoPaginate => Len(requested) <= maxPages

\* C6: when a page harvest raises, the driver does not propagate it: no page
\* is requested after it and the driver returns the records of the pages
\* harvested before it.
C6_PageErrorStopsDriver ==
  autoPaginate =>
    LET n == Len(harvested) IN
    /\ \A k \in 1..n : harvested[k].count = -1 => k = n /\ Len(requested) = n
    /\ driverPc = "threw" => requested = <<>>
    /\ (driverPc = "returned" /\ n > 0 /\ harvested[n].count = -1) =>
         /\ terminatedReason = "ERROR"
         /\ driverProducts = RecordsOf(SubSeq(harvested, 1, n - 1))

C6_Witness ==
  /\ driverPc = "returned" /\ terminatedReason = "ERROR"
  /\ Len(harvested) = 3 /\ harvested[3].count = -1
  /\ driverProducts = Listings(urlIdx, 1, ListingCount(1))
                        \o Listings(urlIdx, 2, ListingCount(2))

\* C7: the scroll loop of one page harvest makes at most maxScrollAttempts
\* iterations however the count evolves; it is left before that exactly by
\* the stable counter reaching StableThreshold.
C7_ScrollLoopBounded ==
  /\ iters <= maxScrollAttempts
  /\ pagePc = "scroll" =>
       stableCount < StableThreshold /\ scrollAttempts < maxScrollAttempts
  /\ (pagePc = "extract" /\ iters < maxScrollAttempts) =>
       stableCount = StableThreshold
  /\ (pagePc = "extract" /\ stableCount < StableThreshold) =>
       scrollAttempts = maxScrollAttempts /\ iters = maxScrollAttempts

C7_Witness ==
  /\ pagePc = "extract" /\ iters = maxScrollAttempts
  /\ scrollAttempts = maxScrollAttempts /\ stableCount < StableThreshold

\* C8: every page context a page harvest opened is closed when the harvest
\* returns or throws, on the success path and on every failure path.
C8_PageClosedAtEnd ==
  /\ pagePc \in {"returned", "threw", "idle"} => pagesOpen = 0
  /\ pagesOpen \in {0, 1}

C8_Witness ==
  /\ pagePc = "threw" /\ pagesOpen = 0
  /\ pageError = [prefix |-> "Failed to scrape shop page",
                  message |-> "Could not find product elements on page"]

\* C9: a request that launched a browser closes it exactly once, after the
\* last URL and before the response, on every path.
C9_SessionClosedOnce ==
  /\ closes <= 1 /\ closes <= launches /\ launches <= 1
  /\ closes = 1 =>
       /\ routePc \in {"generate", "catch", "done"}
       /\ Len(harvestRuns) = Len(urls)
       /\ browser = "null"
  /\ (routePc = "done" /\ launches = 1) => closes = 1
  /\ response.status # 0 => routePc = "done"

C9_Witness ==
  /\ routePc = "done" /\ response.status = 500
  /\ routeError.message = "Failed to write file"
  /\ launches = 1 /\ closes = 1

\* C10: a failed launch of the browser is the only harvesting failure that
\* fails the request: then no URL is harvested and the status is 500; a
\* request with at least one record whose file is written gets 200 whatever
\* failed while harvesting.
C10_OnlyLaunchFailureAborts ==
  /\ routeError.message = "Failed to launch the browser process" =>
       /\ attempted = <<>> /\ requested = <<>> /\ allProducts = <<>>
       /\ routePc = "done" => response.status = 500
  /\ response.status = 500 =>
       routeError.message \in {"Failed to launch the browser process",
                               "Unexpected token", "Failed to write file"}
  /\ (routePc = "done" /\ Len(allProducts) > 0 /\ routeError = NoError) =>
       response.status = 200

C10_Witness ==
  /\ routePc = "done" /\ response.status = 200
  /\ Len(perUrlErrors) = 2 /\ Len(urls) = 3

\* a text read as lead, <number>, k or K, tail: the number as m / 10^e, or
\* ok = FALSE when the text is not of that form
KForm(text) ==
  LET body  == SkipSpaces(text)
      whole == TakeDigits(body)
      rest  == Drop(body, Len(whole))
      frac  == IF rest # <<>> /\ Head(rest) = "." THEN TakeDigits(Tail(rest))
               ELSE <<>>
      after == IF frac # <<>> THEN Drop(rest, 1 + Len(frac)) ELSE rest
  IN  [ok |-> whole # <<>> /\ after # <<>> /\ Head(after) \in {"k", "K"}
               /\ Tail(after) \in Tails,
       m |-> DigitPrefix(whole \o frac, 0), e |-> Len(frac)]

\* the decimal d has the value m / 10^e
HasValue(d, m, e) == ~d.nan /\ d.m * Pow10(e) = m * Pow10(d.e)

\* C12: for a quantity <number>k, in either case of the k, with or without
\* a fraction, and with any of the tails the cleanup removes, numeric is the
\* number times 1000; adjusted is numeric + 500 when the number is in [1, 10]
\* and numeric when it is not.
C12_KScaleAdjustment ==
  (qCalls > 0 /\ qRaw.given /\ KForm(qRaw.text).ok) =>
    LET b       == KForm(qRaw.text)
        inRange == Pow10(b.e) <= b.m /\ b.m <= 10 * Pow10(b.e)
    IN  /\ HasValue(qInfo.numeric, 1000 * b.m, b.e)
        /\ HasValue(qInfo.adjusted,
                    1000 * b.m + (IF inRange THEN 500 * Pow10(b.e) ELSE 0), b.e)

C12_Witness ==
  /\ qCalls > 0
  /\ qRaw = Text(<<"1", ".", "3", "K", " ", "s", "o", "l", "d">>)
  /\ qInfo = Info(Decimal(1300, 0), Decimal(1800, 0), <<"1", ".", "3", "k">>)

\* a cleaned text that starts no decimal number: after an optional sign there
\* is neither a digit nor a point followed by a digit
StartsNoNumber(raw) ==
  LET body == IF raw # <<>> /\ Head(raw) \in {"-", "+"} THEN Tail(raw) ELSE raw
  IN  ~ \/ body # <<>> /\ IsDigit(Head(body))
        \/ Len(body) >= 2 /\ Head(body) = "." /\ IsDigit(body[2])

C11_ZeroRecordsFailureCarriesErrors ==
  (routePc = "done" /\ launches > 0 /\ response.status \in {200, 400}) =>
    /\ response.status = 200 <=> Len(allProducts) > 0
    /\ (Len(allProducts) = 0 /\ perUrlErrors # <<>>) => response.details # ""

\* a page harvest is in progress: called and neither returned nor thrown
InProgress == pagePc \notin {"idle", "returned", "threw"}

\* C16: the URLs are harvested one after the other in input order, the
\* harvest of a URL starting only when those of all earlier URLs have ended;
\* within a URL the page harvests are called for consecutive pages, each
\* only when the one before has ended; at no time are two page harvests in
\* progress or two pages open.
C16_StrictlySequential ==
  routePc # "off" =>
    /\ \A k \in 1..Len(attempted) : attempted[k] = k
    /\ \A k \in 1..Len(harvestRuns) : harvestRuns[k].url = k
    /\ Len(attempted) = Len(harvestRuns) + (IF routePc = "awaitUrl" THEN 1 ELSE 0)
    /\ Len(requested) = Len(harvested) + (IF InProgress THEN 1 ELSE 0)
    /\ InProgress => routePc = "awaitUrl"
    /\ \A k \in 1..Len(harvested) : harvested[k].req = requested[k]
    /\ \A k \in 1..(Len(requested) - 1) :
         parseInt(requested[k + 1].page.text).n
           = parseInt(requested[k].page.text).n + 1
    /\ pagesOpen <= 1

C16_Witness ==
  /\ routePc = "awaitUrl" /\ autoPaginate /\ urlIdx = 2
  /\ Len(harvestRuns) = 1 /\ Len(harvestRuns[1].pages) >= 2
  /\ Len(requested) = 2 /\ Len(harvested) = 1 /\ InProgress
  /\ pagesOpen = 1

\* the positions of the strings that JSON.parse rejects or whose payload
\* cannot be read: null, an item_cards that is no array, a null item card
FailedItems ==
  {k \in 1..Len(xJsonStrings) :
     LET j == xJsonStrings[k] IN
     \/ ~j.parses
     \/ j.isNull
     \/ j.where # "none" /\ (~j.iterable \/ \E i \in 1..Len(j.cards) : j.cards[i].isNull)}

\* the item cards of the strings among the first k that did not fail, in
\* the order of the strings
RECURSIVE ParsedCards(_)
ParsedCards(k) ==
  IF k = 0 THEN <<>>
  ELSE ParsedCards(k - 1)
         \o (IF k \in FailedItems \/ xJsonStrings[k].where = "none" THEN <<>>
             ELSE xJsonStrings[k].cards)

\* C15: processMultipleJsons catches the failure of an item for that item
\* only: the error list has one message per failed item, in input order and
\* labelled with the item's 1-based position, and the products are those of
\* every other item, in input order.
C15_ItemFailureCaughtPerItem ==
  (exportPc = "done" /\ xBody = "array" /\ Len(xJsonStrings) > 0) =>
    LET errors == xResult.stats.errors
        cards  == ParsedCards(Len(xJsonStrings))
    IN  /\ {errors[e].label : e \in 1..Len(errors)} = FailedItems
        /\ Len(errors) = Cardinality(FailedItems)
        /\ \A e \in 1..(Len(errors) - 1) : errors[e].label < errors[e + 1].label
        /\ Len(xResult.products) = Len(cards)
        /\ \A i \in 1..Len(cards) : xResult.products[i] = ProductOf(cards[i])

C15_Witness ==
  /\ exportPc = "done" /\ Len(xJsonStrings) = 3
  /\ FailedItems = {2}
  /\ ~xJsonStrings[2].parses
  /\ Len(xJsonStrings[1].cards) = 1 /\ Len(xJsonStrings[3].cards) = 2
  /\ Len(xResult.stats.errors) = 1 /\ xResult.stats.errors[1].label = 2
  /\ Len(xResult.products) = 3
  /\ xResult.products[1].name = <<"A">> /\ xResult.products[2].name = <<"B">>
  /\ xResponse.status = 200

\* the candidates of a list, by position, under which the element has an
\* element with some text that is not blank
WithText(item, selectors) ==
  {j \in 1..Len(selectors) :
     /\ item.text[selectors[j]].given
     /\ \E k \in 1..Len(item.text[selectors[j]].text) :
          item.text[selectors[j]].text[k] # " "}

\* the trimmed text of the first such candidate
FirstText(item, selectors) ==
  trim(item.text[selectors[CHOOSE j \in WithText(item, selectors) :
                             \A k \in WithText(item, selectors) : j <= k]].text)

\* the placeholder name of the n-th listing element, counted from 1
Placeholder(n) ==
  <<"U", "n", "k", "n", "o", "w", "n", " ", "P", "r", "o", "d", "u", "c", "t", " ">>
    \o NatToString(n)

\* C17: each field of a record is the trimmed text (or the attribute value)
\* of the first candidate of the field's list, in list order, that has some,
\* whatever later candidates hold; when no candidate has any it is the
\* field's default: the placeholder for the name, null for the discount, the
\* empty string for the link (which the record holds with https: in front
\* unless it starts with http).
C17_FirstCandidateWithText ==
  exportPc = "scraped" =>
    \A i \in 1..Len(scraped) :
      LET item == domItems[i] IN
      /\ scraped[i].name =
           IF WithText(item, Selectors.name) # {}
             THEN FirstText(item, Selectors.name) ELSE Placeholder(i)
      /\ scraped[i].discount =
           IF WithText(item, Selectors.discount) # {}
             THEN Text(FirstText(item, Selectors.discount)) ELSE Missing
      /\ \E scheme \in {<<>>, <<"h", "t", "t", "p", "s", ":">>} :
           /\ scraped[i].productUrl =
                scheme \o (IF item.attr["a"].given THEN item.attr["a"].text
                           ELSE <<>>)
           /\ scheme = <<>> <=> /\ item.attr["a"].given
                                /\ Len(item.attr["a"].text) >= 4
                                /\ \A k \in 1..4 :
                                     item.attr["a"].text[k] = <<"h", "t", "t", "p">>[k]

C17_Witness ==
  /\ exportPc = "scraped" /\ Len(domItems) = 1
  /\ ~domItems[1].text[Selectors.name[1]].given
  /\ domItems[1].text[Selectors.name[2]] = Text(<<" ">>)
  /\ domItems[1].text[Selectors.name[3]].given
  /\ domItems[1].text[Selectors.name[4]].given
  /\ scraped[1].name = <<"N", "3">>

\* C18: the script returns one record per listing element, in the order of
\* the elements, none left out; the record of an element without a name has
\* the name "Unknown Product" with the element's 1-based position.
C18_OneRecordPerElement ==
  exportPc = "scraped" =>
    /\ Len(scraped) = Len(domItems)
    /\ \A i \in 1..Len(domItems) :
         IF WithText(domItems[i], Selectors.name) = {}
           THEN scraped[i].name = Placeholder(i)
           ELSE scraped[i].name = FirstText(domItems[i], Selectors.name)

C18_Witness ==
  /\ exportPc = "scraped" /\ Len(domItems) = 3
  /\ WithText(domItems[1], Selectors.name) = {}
  /\ WithText(domItems[2], Selectors.name) # {}
  /\ WithText(domItems[3], Selectors.name) = {}
  /\ scraped[3].name
       = <<"U", "n", "k", "n", "o", "w", "n", " ", "P", "r", "o", "d", "u", "c",
           "t", " ", "3">>
  /\ scraped[2].name = <<"N", "1">>

\* the records an export was made of, with the price and the quantity text
\* of each
Exportees ==
  IF xResponse.status = 200
    THEN LET pasted == xResult.products IN
         [i \in 1..Len(pasted) |->
            [name |-> pasted[i].name, price |-> getPriceNumeric(pasted[i]),
             quantity |-> pasted[i].monthly_sold]]
    ELSE [i \in 1..Len(scraped) |->
            [name |-> scraped[i].name, price |-> scraped[i].price,
             quantity |-> Text(scraped[i].soldCount)]]

\* C19 as stated: in every file of either path, of any format, the sales
\* estimate of each record is its price times the adjusted quantity of
\* getMonthlySoldInfo, the +500 of the k values included.
C19_SalesUseAdjustedQuantity ==
  \A s \in 1..Len(file.sheets) :
    \A i \in 1..Len(Exportees) :
      (i <= Len(file.sheets[s]) /\ "sales" \in DOMAIN file.sheets[s][i]) =>
        file.sheets[s][i].sales
          = Times(Exportees[i].price,
                  getMonthlySoldInfo(Exportees[i].quantity).adjusted)

\* the sheet holds the records in order and after them one TOTAL row with
\* the sum of their sales estimates
EndsInTotal(sheet) ==
  /\ Len(sheet) = Len(Exportees) + 1
  /\ \A i \in 1..Len(Exportees) : sheet[i].name = Exportees[i].name
  /\ sheet[Len(sheet)] = TotalRow(SumSales(SubSeq(sheet, 1, Len(sheet) - 1)))

\* C20 as stated: every spreadsheet (in one of its sheets) and every CSV
\* file, of either path, holds the records in order followed by exactly one
\* TOTAL row with the sum of the sales estimates; a JSON file holds the
\* records and no TOTAL row.
C20_TotalRowInSheetsAndCsv ==
  /\ file.format \in {"excel", "csv"} =>
       \E s \in 1..Len(file.sheets) : EndsInTotal(file.sheets[s])
  /\ file.format = "json" => Len(file.sheets[1]) = Len(Exportees)

\* C21: a page harvest throws the no-listings error only when every
\* candidate selector was tried and matched no element; the working
\* selector is the first candidate, in list order, whose count was not zero;
\* every re-count of the scroll loop and the extraction are handed that
\* selector.
C21_FirstMatchingSelector ==
  /\ pageError.message = "Could not find product elements on page" =>
       /\ Len(probed) = NumSelectors
       /\ \A j \in 1..NumSelectors : probed[j] = 0
  /\ workingSelector # 0 =>
       /\ Len(probed) = workingSelector
       /\ probed[workingSelector] > 0
       /\ \A j \in 1..(workingSelector - 1) : probed[j] = 0
       /\ usedSelectors \subseteq {workingSelector}
  /\ pagePc \in {"extract", "close"} => workingSelector # 0
  /\ pagePc = "close" => usedSelectors = {workingSelector}

C21_Witness ==
  /\ pagePc = "returned" /\ workingSelector = 3
  /\ Len(probed) = 3 /\ probed[1] = 0 /\ probed[2] = 0 /\ probed[3] = 2
  /\ usedSelectors = {3} /\ iters > 1

\* C22 as stated: after every iteration of the scroll loop the stable
\* counter is the number of the latest observations in a row that equalled
\* the observation of the iteration before, and the loop is left early only
\* after StableThreshold such observations.
C22_StableCountsUnchangedRun ==
  /\ pagePc \in {"scroll", "extract"} => stableCount = unchangedRun
  /\ (pagePc = "extract" /\ iters < maxScrollAttempts) =>
       unchangedRun >= StableThreshold

\* the number a text of digits with an optional minus sign denotes
RECURSIVE Value(_)
Value(t) ==
  IF t = <<>> THEN 0
  ELSE IF Head(t) = "-" THEN 0 - Value(Tail(t))
  ELSE 10 * Value(SubSeq(t, 1, Len(t) - 1)) + DigitVal(t[Len(t)])

IsNumeral(t) ==
  LET d == IF t # <<>> /\ Head(t) = "-" THEN Tail(t) ELSE t
  IN  d # <<>> /\ \A j \in 1..Len(d) : IsDigit(d[j])

\* the parameters of a query other than page, in their order
OtherParams(query) == SelectSeq(query, LAMBDA x : x.name # "page")

\* C23: the k-th page the Pagination Driver requests for a URL is the seed's
\* URL with one page parameter whose value is the seed's page number (1 when
\* the seed has none) plus k - 1, and with every other parameter as in the
\* seed, in the seed's order.
C23_ConsecutivePagesOfSeed ==
  autoPaginate =>
    \A k \in 1..Len(requested) :
      LET seed  == urls[requested[k].url]
          given == seed.page.present /\ seed.page.text # <<>>
          pages == SelectSeq(requested[k].query, LAMBDA x : x.name = "page")
      IN  /\ given => IsNumeral(seed.page.text)
          /\ Len(pages) = 1
          /\ IsNumeral(pages[1].value)
          /\ Value(pages[1].value)
               = (IF given THEN Value(seed.page.text) ELSE 1) + k - 1
          /\ OtherParams(requested[k].query) = OtherParams(seed.query)

C23_Witness ==
  /\ autoPaginate /\ Len(urls) = 1 /\ Len(requested) = 3
  /\ urls[1].query = <<[name |-> "from", value |-> <<"w">>],
                       [name |-> "page", value |-> <<"3">>],
                       [name |-> "q", value |-> <<"A">>],
                       [name |-> "page", value |-> <<"9">>]>>
  /\ requested[3].query = <<[name |-> "from", value |-> <<"w">>],
                            [name |-> "page", value |-> <<"5">>],
                            [name |-> "q", value |-> <<"A">>]>>

\* C24 as stated: every string of the request that is no valid JSON, or
\* whose value has not the item-card structure (null, an empty object, a
\* scalar), has an entry in the error list.
C24_UnexpectedShapeGetsEntry ==
  (exportPc = "done" /\ xBody = "array" /\ Len(xJsonStrings) > 0) =>
    \A k \in 1..Len(xJsonStrings) :
      (~xJsonStrings[k].parses \/ xJsonStrings[k].isNull
         \/ xJsonStrings[k].where = "none") =>
        \E e \in 1..Len(xResult.stats.errors) :
          xResult.stats.errors[e].label = k

C26_OneSessionIdempotentClose ==
  /\ launches <= 1
  /\ closes = (IF closeCalls > 0 /\ launches = 1 THEN 1 ELSE 0)
  /\ closeCalls > 0 => browser = "null"
  /\ browser = "open" => launches = 1 /\ closeCalls = 0
  /\ Len(harvested) > 0 => launches = 1

C26_Witness ==
  /\ routePc = "done" /\ closeCalls = 2 /\ closes = 1 /\ launches = 1
  /\ browser = "null" /\ Len(harvestRuns) > 1

\* C27: at every moment of a request at most one page is open, and one is
\* open exactly while a page harvest is inside its try block; a harvest that
\* is about to open its page finds none open, whether it follows another
\* page of the same URL or the harvest of an earlier URL.
C27_OnePageOpenAtATime ==
  routePc # "off" =>
    /\ pagesOpen = (IF pagePc \in {"goto", "probe", "scroll", "extract",
                                     "close", "catch"} THEN 1 ELSE 0)
    /\ pagePc = "start" => pagesOpen = 0

C27_Witness ==
  /\ routePc = "awaitUrl" /\ autoPaginate /\ urlIdx = 3
  /\ harvestRuns[1].threw /\ Len(harvestRuns[2].pages) = 3
  /\ harvestRuns[2].pages[3].count = -1
  /\ Len(harvested) = 1 /\ pagePc = "scroll" /\ pagesOpen = 1

\* a request to POST /api/extract, as opposed to a run of the page script
ExtractRequest == exportPc \in {"start", "parsed", "catch"} \/ xResponse.status # 0

\* C28: a request whose list is missing, is not an array or is empty is
\* answered 400 before any work: on the scraping route no browser is launched
\* and no URL or page is harvested, on the pasted route nothing is parsed
\* and no file is built.
C28_RejectedBeforeAnyWork ==
  /\ routePc # "off" /\ (bodyKind \in {"missing", "notArray"} \/
                          (bodyKind = "array" /\ urls = <<>>))
       => /\ launches = 0 /\ browser = "null" /\ pagesOpen = 0
          /\ attempted = <<>> /\ requested = <<>> /\ harvestRuns = <<>>
          /\ routePc \in {"start", "done"}
          /\ routePc = "done" =>
               /\ response.status = 400
               /\ response.error = "Please provide an array of Lazada shop URLs"
  /\ ExtractRequest /\ (xBody \in {"missing", "notArray"} \/
                         (xBody = "array" /\ xJsonStrings = <<>>))
       => /\ xResult = processMultipleJsons(<<>>) /\ file = NoFile
          /\ exportPc \in {"start", "parsed", "done"}
          /\ exportPc = "done" =>
               /\ xResponse.status = 400
               /\ xResponse.error = "Please provide an array of JSON strings"

C28_Witness ==
  \/ routePc = "done" /\ bodyKind = "array" /\ urls = <<>> /\ response.status = 400
  \/ exportPc = "done" /\ xBody = "notArray" /\ xResponse.status = 400

\* C29: the statistics of the pasted path: totalProducts is the number of
\* returned products, soldOut and available are natural numbers that add up
\* to it and count the products flagged sold out and the others, totalFiles
\* is the number of pasted strings, and there are at most as many error
\* messages as strings.
C29_StatsAddUp ==
  exportPc = "done" /\ xResponse.status \in {200, 400}
    /\ ~Rejected(xBody, xJsonStrings) =>
    LET stats == xResult.stats
        Flagged(flag) == {i \in 1..Len(xResult.products) :
                            xResult.products[i].sold_out = flag}
    IN  /\ stats.totalProducts = Len(xResult.products)
        /\ stats.soldOut \in Nat /\ stats.available \in Nat
        /\ stats.soldOut + stats.available = stats.totalProducts
        /\ stats.soldOut = Cardinality(Flagged("Yes"))
        /\ stats.available = Cardinality(Flagged("No"))
        /\ stats.totalFiles = Len(xJsonStrings)
        /\ Len(stats.errors) <= stats.totalFiles

C29_Witness ==
  /\ exportPc = "done" /\ xResponse.status = 200 /\ Len(xJsonStrings) = 3
  /\ Len(xResult.stats.errors) = 2 /\ ~xJsonStrings[1].parses
  /\ xResult.stats.soldOut = 1 /\ xResult.stats.available = 1

\* C30: for every input the result has 0 <= numeric <= adjusted and
\* adjusted - numeric is 0 or 500, 500 exactly when the cleaned input is a
\* k form with a base in [1, 10]; "568" gives numeric = adjusted = 568 and
\* the display "568".
C30_NumericWithinAdjusted ==
  qCalls > 0 =>
    LET diff  == Plus(qInfo.adjusted, Decimal(0 - qInfo.numeric.m, qInfo.numeric.e))
        b     == KForm(CleanQuantity(qRaw.text))
        kBase == qRaw.given /\ b.ok /\ Pow10(b.e) <= b.m /\ b.m <= 10 * Pow10(b.e)
    IN  /\ ~qInfo.numeric.nan /\ ~qInfo.adjusted.nan
        /\ qInfo.numeric.m >= 0
        /\ diff.m >= 0
        /\ HasValue(diff, 0, 0) \/ HasValue(diff, 500, 0)
        /\ HasValue(diff, 500, 0) <=> kBase
        /\ qRaw = Text(<<"5", "6", "8">>) =>
             qInfo = Info(Decimal(568, 0), Decimal(568, 0), <<"5", "6", "8">>)

====
